---- MODULE Spec2Model ----
(***************************************************************************)
(* mkcommit (src/src/index.js, final revision, lines 1030-2237).           *)
(*                                                                         *)
(* A JavaScript string is a sequence of characters; a character is a       *)
(* one-character TLA+ string.  Three characters are written by their code  *)
(* point: "U+0060" (the backquote of a code fence), "U+0130" (capital I    *)
(* with dot above) and "U+0307" (combining dot above).  A JavaScript value *)
(* is a record [t, v]: t is the type tag and v the payload.                *)
(***************************************************************************)
EXTENDS Integers, Sequences, FiniteSets, TLC

VARIABLES
    pc,            \* position of the control flow of the modelled call
    rawResponse,   \* argument of parseCommitResponse
    commitData,    \* record returned by parseCommitResponse
    parsePath,     \* branch of the normalizer that produced commitData
    message,       \* text returned by formatCommitMessage
    argFile,       \* matchesPattern: the argument file
    argPattern,    \* matchesPattern: the argument pattern
    matched,       \* outcome of the matchesPattern call
    excludeFiles,  \* the persisted configuration key excludeFiles
    stagedFiles,   \* the staged paths git lists
    excludedFiles, \* generateCommit: the result of getExcludedStagedFiles
    filesToInclude, \* getStagedDiff: the paths the diff is restricted to
    options,       \* the command line of the current run
    configSet,     \* the current run has called config.set('excludeFiles', ...)
    steps,         \* getStagedDiff: the steps taken so far, in order
    diffArgs,      \* getStagedDiff: the argument list of the diff command
    diffCommand,   \* getStagedDiff: the command line handed to execSync for the diff
    result,        \* getStagedDiff: what the call returned or threw
    caught,        \* getStagedDiff: the error its catch block caught
    filesWithStatus, \* generateCommit: the result of getStagedFilesWithStatus
    analyzedFiles, \* generateCommit: the files handed to the prompt
    requests,      \* generateCommit: the requests sent to the model endpoint
    commitMessage, \* generateCommit: the message of the current iteration
    action,        \* generateCommit: the last answers of the user
    commitCalls,   \* generateCommit: the messages passed to executeCommit
    diffLines,     \* truncateDiffSmart: the lines of the argument diff
    truncated,     \* truncateDiffSmart: the lines of the returned text
    clock,         \* fetchWithTimeout: the seconds since the request was issued
    timer,         \* fetchWithTimeout: the state of the setTimeout timer
    response,      \* fetchWithTimeout: the response fetch resolved with
    rejection,     \* fetchWithTimeout: the error fetch rejected with
    thrown,        \* generateCommitMessage: the error the call threw
    tmpdir,        \* executeCommit: the files of os.tmpdir(), name to content
    issued,        \* executeCommit: the values randomUUID has returned
    calls,         \* executeCommit: the state of each running call
    ollamaPort,    \* config: the persisted ollamaPort
    portArg,       \* the text last given as a port
    exitCode,      \* the exit code of the last invocation, "none" while it runs
    report,        \* generateCommit: what it reported when there was no diff
    diffStats,     \* generateCommit: the statistics string
    gitQueries,    \* generateCommit: the version-control queries made, in order
    ollamaModel,   \* config: the persisted ollamaModel
    requestLog,    \* generateCommit: what each request to the endpoint was made of
    displayed,     \* generateCommit: the argument of the last displayCommitMessage
    commitOk       \* generateCommit: what executeCommit returned

normVars == <<rawResponse, commitData, parsePath, message>>
matchVars == <<argFile, argPattern, matched>>
exclVars == <<excludeFiles, stagedFiles, excludedFiles, filesToInclude, options, configSet>>
diffVars == <<steps, diffArgs, diffCommand, result, caught>>
genVars == <<filesWithStatus, analyzedFiles, requests, commitMessage, action, commitCalls,
             report, diffStats, gitQueries, ollamaModel, requestLog, displayed, commitOk>>
truncVars == <<diffLines, truncated>>
fetchVars == <<clock, timer, response, rejection, thrown>>
tmpVars == <<tmpdir, issued, calls>>
cliVars == <<ollamaPort, portArg, exitCode>>
quietVars == <<truncVars, fetchVars, tmpVars>>
laterVars == <<truncVars, fetchVars, tmpVars, cliVars>>
flowVars == <<diffVars, genVars, laterVars>>
vars == <<pc, normVars, matchVars, exclVars, flowVars>>

(***************************************************************************)
(* JavaScript values                                                       *)
(***************************************************************************)
Undefined == [t |-> "undefined", v |-> <<>>]
Null == [t |-> "null", v |-> <<>>]
Str(s) == [t |-> "str", v |-> s]
Num(s) == [t |-> "num", v |-> s]
Bool(s) == [t |-> "bool", v |-> s]
Arr(a) == [t |-> "arr", v |-> a]
Obj(members) == [t |-> "obj", v |-> members]
\* Object, the constructor function every object literal inherits
ObjectFunction == [t |-> "func", v |-> <<"function Object() { [native code] }">>]
\* Object.prototype, what the inherited accessor __proto__ returns
ObjectPrototype == [t |-> "proto", v |-> <<"[object Object]">>]

IsString(x) == x.t = "str"
\* ToBoolean taking every value for true
Truthy_All(x) == TRUE
\* ToBoolean: the values the code tests with !x, x && ..., x ? ... , x || ...
Truthy(x) ==
    CASE x.t = "undefined" -> FALSE
      [] x.t = "null" -> FALSE
      [] x.t = "str" -> x.v # <<>>
      [] x.t = "num" -> x.v # <<"0">>
      [] x.t = "bool" -> x.v = <<"t", "r", "u", "e">>
      [] OTHER -> TRUE
\* ToString, as applied by a template literal
ToStringJS(x) ==
    CASE x.t = "str" -> x.v
      [] x.t = "null" -> <<"n", "u", "l", "l">>
      [] x.t = "undefined" -> <<"u", "n", "d", "e", "f", "i", "n", "e", "d">>
      [] OTHER -> x.v

(***************************************************************************)
(* String primitives                                                       *)
(***************************************************************************)
WhiteSpace == {" ", "\t", "\n"}
Digits == {"0", "1"}
Uppers == <<"A", "B", "C", "D", "E", "F", "G", "H", "I", "J", "K", "L", "M",
            "N", "O", "P", "Q", "R", "S", "T", "U", "V", "W", "X", "Y", "Z">>
Lowers == <<"a", "b", "c", "d", "e", "f", "g", "h", "i", "j", "k", "l", "m",
            "n", "o", "p", "q", "r", "s", "t", "u", "v", "w", "x", "y", "z">>

\* the ASCII case mapping, which is what a /i regular expression compares by
AsciiLower(c) ==
    IF \E i \in 1..Len(Uppers) : Uppers[i] = c
    THEN Lowers[CHOOSE i \in 1..Len(Uppers) : Uppers[i] = c]
    ELSE c

\* String.prototype.toLowerCase on one character: U+0130 becomes two characters
LowerOfChar(c) ==
    IF c = "U+0130" THEN <<"i", "U+0307">> ELSE <<AsciiLower(c)>>

RECURSIVE toLowerCase(_)
toLowerCase(s) ==
    IF s = <<>> THEN <<>> ELSE LowerOfChar(Head(s)) \o toLowerCase(Tail(s))

\* s.substring(0, n)
substring0(s, n) == IF Len(s) <= n THEN s ELSE SubSeq(s, 1, n)

\* the part of s from index i on (1-based)
From(s, i) == SubSeq(s, i, Len(s))

startsWith(s, p) == Len(s) >= Len(p) /\ SubSeq(s, 1, Len(p)) = p
endsWith(s, p) == Len(s) >= Len(p) /\ SubSeq(s, Len(s) - Len(p) + 1, Len(s)) = p
includes(s, c) == \E i \in 1..Len(s) : s[i] = c

AllWhite(s) == \A i \in 1..Len(s) : s[i] \in WhiteSpace

\* number of leading white-space characters: what \s* consumes at the start
LeadingWs(s) ==
    IF AllWhite(s) THEN Len(s)
    ELSE (CHOOSE i \in 1..Len(s) :
            s[i] \notin WhiteSpace /\ \A j \in 1..(i - 1) : s[j] \in WhiteSpace) - 1

\* String.prototype.trim
trim(s) ==
    IF AllWhite(s) THEN <<>>
    ELSE LET a == LeadingWs(s) + 1
             b == CHOOSE i \in 1..Len(s) :
                    s[i] \notin WhiteSpace /\ \A j \in (i + 1)..Len(s) : s[j] \in WhiteSpace
         IN SubSeq(s, a, b)

\* s.replace(/\.$/, '')
stripTrailingPeriod(s) ==
    IF s # <<>> /\ s[Len(s)] = "." THEN SubSeq(s, 1, Len(s) - 1) ELSE s

\* s.split('\n')
RECURSIVE splitLines(_)
splitLines(s) ==
    IF ~includes(s, "\n") THEN <<s>>
    ELSE LET i == CHOOSE k \in 1..Len(s) :
                    s[k] = "\n" /\ \A j \in 1..(k - 1) : s[j] # "\n"
         IN <<SubSeq(s, 1, i - 1)>> \o splitLines(From(s, i + 1))

\* a.join(sep)
RECURSIVE join(_, _)
join(a, sep) ==
    IF a = <<>> THEN <<>>
    ELSE IF Len(a) = 1 THEN a[1]
    ELSE a[1] \o sep \o join(Tail(a), sep)

(***************************************************************************)
(* JSON.parse: objects, arrays, strings without escapes, digit runs and    *)
(* the three literals, with insignificant white space.  A result is        *)
(* [ok, val, pos]: pos is the index after the parsed value.                *)
(***************************************************************************)
ParseFail == [ok |-> FALSE, val |-> Undefined, pos |-> 0]
ParseOk(val, pos) == [ok |-> TRUE, val |-> val, pos |-> pos]

SkipWs(s, i) == i + LeadingWs(From(s, i))

At(s, i) == IF i >= 1 /\ i <= Len(s) THEN s[i] ELSE "EOF"

ParseString(s, i) ==
    IF At(s, i) # "\"" \/ ~includes(From(s, i + 1), "\"") THEN ParseFail
    ELSE LET j == CHOOSE k \in (i + 1)..Len(s) :
                    s[k] = "\"" /\ \A m \in (i + 1)..(k - 1) : s[m] # "\""
             body == SubSeq(s, i + 1, j - 1)
         IN IF \E m \in 1..Len(body) : body[m] \in {"\n", "\t"}
            THEN ParseFail
            ELSE ParseOk(Str(body), j + 1)

ParseNumber(s, i) ==
    LET n == CHOOSE k \in 0..(Len(s) - i + 1) :
                /\ \A m \in i..(i + k - 1) : s[m] \in Digits
                /\ At(s, i + k) \notin Digits
    IN IF n = 0 \/ (n > 1 /\ s[i] = "0") THEN ParseFail
       ELSE ParseOk(Num(SubSeq(s, i, i + n - 1)), i + n)

ParseLiteral(s, i, word, val) ==
    IF startsWith(From(s, i), word) THEN ParseOk(val, i + Len(word)) ELSE ParseFail

RECURSIVE ParseValue(_, _), ParseElements(_, _, _), ParseMembers(_, _, _)
ParseValue(s, i) ==
    LET j == SkipWs(s, i)
        c == At(s, j)
    IN CASE c = "\"" -> ParseString(s, j)
         [] c \in Digits -> ParseNumber(s, j)
         [] c = "n" -> ParseLiteral(s, j, <<"n", "u", "l", "l">>, Null)
         [] c = "t" -> ParseLiteral(s, j, <<"t", "r", "u", "e">>, Bool(<<"t", "r", "u", "e">>))
         [] c = "f" -> ParseLiteral(s, j, <<"f", "a", "l", "s", "e">>, Bool(<<"f", "a", "l", "s", "e">>))
         [] c = "[" ->
              IF At(s, SkipWs(s, j + 1)) = "]"
              THEN ParseOk(Arr(<<>>), SkipWs(s, j + 1) + 1)
              ELSE ParseElements(s, j + 1, <<>>)
         [] c = "{" ->
              IF At(s, SkipWs(s, j + 1)) = "}"
              THEN ParseOk(Obj(<<>>), SkipWs(s, j + 1) + 1)
              ELSE ParseMembers(s, j + 1, <<>>)
         [] OTHER -> ParseFail

\* the elements of an array after "[" or ",", acc the elements read so far
ParseElements(s, i, acc) ==
    LET r == ParseValue(s, i)
        j == SkipWs(s, r.pos)
    IN IF ~r.ok THEN ParseFail
       ELSE IF At(s, j) = "," THEN ParseElements(s, j + 1, Append(acc, r.val))
       ELSE IF At(s, j) = "]" THEN ParseOk(Arr(Append(acc, r.val)), j + 1)
       ELSE ParseFail

\* the members of an object after "{" or ",", acc the members read so far
ParseMembers(s, i, acc) ==
    LET k == ParseString(s, SkipWs(s, i))
        c == SkipWs(s, k.pos)
        r == ParseValue(s, c + 1)
        j == SkipWs(s, r.pos)
        m == [key |-> k.val.v, val |-> r.val]
    IN IF ~k.ok \/ At(s, c) # ":" THEN ParseFail
       ELSE IF ~r.ok THEN ParseFail
       ELSE IF At(s, j) = "," THEN ParseMembers(s, j + 1, Append(acc, m))
       ELSE IF At(s, j) = "}" THEN ParseOk(Obj(Append(acc, m)), j + 1)
       ELSE ParseFail

\* JSON.parse(s): ok is FALSE where JSON.parse throws SyntaxError
JSONParse(s) ==
    LET r == ParseValue(s, 1)
    IN IF r.ok /\ SkipWs(s, r.pos) = Len(s) + 1 THEN r ELSE ParseFail

\* x[key] for the keys the code reads (type, subject, scope, body): an own
\* member of an object (the last one of a repeated key), undefined otherwise
GetProp(x, key) ==
    IF x.t = "obj" /\ \E i \in 1..Len(x.v) : x.v[i].key = key
    THEN x.v[CHOOSE i \in 1..Len(x.v) :
                x.v[i].key = key /\ \A j \in (i + 1)..Len(x.v) : x.v[j].key # key].val
    ELSE Undefined

(***************************************************************************)
(* Response normalizer                                                     *)
(***************************************************************************)
COMMIT_TYPES == <<
    <<"f", "e", "a", "t">>,
    <<"f", "i", "x">>,
    <<"d", "o", "c", "s">>,
    <<"s", "t", "y", "l", "e">>,
    <<"r", "e", "f", "a", "c", "t", "o", "r">>,
    <<"p", "e", "r", "f">>,
    <<"t", "e", "s", "t">>,
    <<"b", "u", "i", "l", "d">>,
    <<"c", "i">>,
    <<"c", "h", "o", "r", "e">>,
    <<"r", "e", "v", "e", "r", "t">>>>

IsCommitType(s) == \E i \in 1..Len(COMMIT_TYPES) : COMMIT_TYPES[i] = s

\* the own properties of the typeMap literal
typeMap == <<
    [key |-> <<"f", "e", "a", "t", "u", "r", "e">>, val |-> <<"f", "e", "a", "t">>],
    [key |-> <<"b", "u", "g", "f", "i", "x">>, val |-> <<"f", "i", "x">>],
    [key |-> <<"b", "u", "g">>, val |-> <<"f", "i", "x">>],
    [key |-> <<"d", "o", "c">>, val |-> <<"d", "o", "c", "s">>],
    [key |-> <<"d", "o", "c", "u", "m", "e", "n", "t", "a", "t", "i", "o", "n">>, val |-> <<"d", "o", "c", "s">>],
    [key |-> <<"t", "e", "s", "t", "s">>, val |-> <<"t", "e", "s", "t">>],
    [key |-> <<"t", "e", "s", "t", "i", "n", "g">>, val |-> <<"t", "e", "s", "t">>],
    [key |-> <<"p", "e", "r", "f", "o", "r", "m", "a", "n", "c", "e">>, val |-> <<"p", "e", "r", "f">>],
    [key |-> <<"m", "a", "i", "n", "t", "e", "n", "a", "n", "c", "e">>, val |-> <<"c", "h", "o", "r", "e">>],
    [key |-> <<"u", "p", "d", "a", "t", "e">>, val |-> <<"c", "h", "o", "r", "e">>],
    [key |-> <<"w", "i", "p">>, val |-> <<"c", "h", "o", "r", "e">>]>>

\* typeMap[key]: an own property, else what the literal inherits from
\* Object.prototype under that name, else undefined
typeMapLookup(key) ==
    IF \E i \in 1..Len(typeMap) : typeMap[i].key = key
    THEN Str(typeMap[CHOOSE i \in 1..Len(typeMap) : typeMap[i].key = key].val)
    ELSE IF key = <<"c", "o", "n", "s", "t", "r", "u", "c", "t", "o", "r">> THEN ObjectFunction
    ELSE IF key = <<"_", "_", "p", "r", "o", "t", "o", "_", "_">> THEN ObjectPrototype
    ELSE Undefined

SUBJECT_MAX == 50
PLACEHOLDER_SUBJECT == <<"u", "p", "d", "a", "t", "e", " ", "f", "i", "l", "e", "s">>
KEY_TYPE == <<"t", "y", "p", "e">>
KEY_SUBJECT == <<"s", "u", "b", "j", "e", "c", "t">>
KEY_SCOPE == <<"s", "c", "o", "p", "e">>
KEY_BODY == <<"b", "o", "d", "y">>
FENCE == <<"U+0060", "U+0060", "U+0060">>
FENCE_JSON == <<"U+0060", "U+0060", "U+0060", "j", "s", "o", "n">>

MapAsciiLower(s) == [i \in 1..Len(s) |-> AsciiLower(s[i])]

\* s.replace(/^```json\s*/i, '')
stripLeadingJsonFence(s) ==
    IF Len(s) >= Len(FENCE_JSON) /\ MapAsciiLower(SubSeq(s, 1, Len(FENCE_JSON))) = FENCE_JSON
    THEN LET rest == From(s, Len(FENCE_JSON) + 1) IN From(rest, LeadingWs(rest) + 1)
    ELSE s

\* s.replace(/^```\s*/i, '')
stripLeadingFence(s) ==
    IF startsWith(s, FENCE)
    THEN LET rest == From(s, Len(FENCE) + 1) IN From(rest, LeadingWs(rest) + 1)
    ELSE s

\* s.replace(/```\s*$/i, ''): the leftmost fence followed by white space only
stripTrailingFence(s) ==
    LET hit(i) == SubSeq(s, i, i + Len(FENCE) - 1) = FENCE /\ AllWhite(From(s, i + Len(FENCE)))
        starts == {i \in 1..(Len(s) - Len(FENCE) + 1) : hit(i)}
    IN IF starts = {} THEN s
       ELSE SubSeq(s, 1, (CHOOSE i \in starts : \A j \in starts : i <= j) - 1)

\* s.match(/\{[\s\S]*\}/): the first "{" through the last "}", <<>> for no match
matchBraces(s) ==
    LET opens == {i \in 1..Len(s) : s[i] = "{"}
        first == CHOOSE i \in opens : \A j \in opens : i <= j
        closes == {i \in 1..Len(s) : s[i] = "}" /\ i > first}
        last == CHOOSE i \in closes : \A j \in closes : i >= j
    IN IF opens = {} \/ closes = {} THEN <<>> ELSE SubSeq(s, first, last)

\* subject.toLowerCase().replace(/\.$/, '').substring(0, 50)
cleanSubject(s) == substring0(stripTrailingPeriod(toLowerCase(s)), SUBJECT_MAX)

\* body.filter(item => typeof item === 'string' && item.trim()).map(item => item.trim())
RECURSIVE cleanBody(_)
cleanBody(items) ==
    IF items = <<>> THEN <<>>
    ELSE IF IsString(Head(items)) /\ trim(Head(items).v) # <<>>
         THEN <<Str(trim(Head(items).v))>> \o cleanBody(Tail(items))
         ELSE cleanBody(Tail(items))

\* l.replace(/^[-*]\s*/, '')
stripBullet(l) ==
    IF l # <<>> /\ l[1] \in {"-", "*"}
    THEN LET rest == Tail(l) IN From(rest, LeadingWs(rest) + 1)
    ELSE l

IsBulletLine(l) == startsWith(l, <<"-">>) \/ startsWith(l, <<"*">>)

RECURSIVE bulletItems(_)
bulletItems(ls) ==
    IF ls = <<>> THEN <<>>
    ELSE IF IsBulletLine(Head(ls))
         THEN <<Str(stripBullet(Head(ls)))>> \o bulletItems(Tail(ls))
         ELSE bulletItems(Tail(ls))

NoMatch == [ok |-> FALSE, type |-> <<>>, scope |-> Undefined, subject |-> <<>>]

\* line.match(/^(feat|...|revert)(\(([^)]+)\))?:\s*(.+)/i): groups 1, 3 and 4
conventionalMatch(line) ==
    LET typed == {i \in 1..Len(COMMIT_TYPES) :
                    /\ Len(line) >= Len(COMMIT_TYPES[i])
                    /\ MapAsciiLower(SubSeq(line, 1, Len(COMMIT_TYPES[i]))) = COMMIT_TYPES[i]}
        \* after(i): the match continued behind the i-th alternative
        after(i) ==
            LET p == Len(COMMIT_TYPES[i]) + 1
                closing == {j \in (p + 2)..Len(line) :
                              line[j] = ")" /\ \A m \in (p + 1)..(j - 1) : line[m] # ")"}
                scoped == At(line, p) = "(" /\ closing # {}
                        /\ At(line, (CHOOSE j \in closing : TRUE) + 1) = ":"
                colon == IF scoped THEN (CHOOSE j \in closing : TRUE) + 1 ELSE p
                rest == From(line, colon + 1)
                k == LeadingWs(rest)
            IN IF At(line, colon) # ":" \/ rest = <<>> THEN NoMatch
               ELSE [ok |-> TRUE,
                     type |-> SubSeq(line, 1, p - 1),
                     scope |-> IF scoped THEN Str(SubSeq(line, p + 1, colon - 2)) ELSE Undefined,
                     subject |-> IF k < Len(rest) THEN From(rest, k + 1) ELSE <<rest[Len(rest)]>>]
        good == {i \in typed : after(i).ok}
    IN IF good = {} THEN NoMatch
       ELSE after(CHOOSE i \in good : \A j \in good : i <= j)

\* conventionalRecord with every later line taken as a body item
conventionalRecord_AllLines(m, rest) ==
    [type |-> Str(toLowerCase(m.type)),
     scope |-> IF Truthy(m.scope) THEN m.scope ELSE Null,
     subject |-> Str(substring0(stripTrailingPeriod(toLowerCase(m.subject)), SUBJECT_MAX)),
     body |-> Arr([i \in 1..Len(rest) |-> Str(stripBullet(rest[i]))])]

\* the record built from the groups of a match and from the lines after it
conventionalRecord(m, rest) ==
    [type |-> Str(toLowerCase(m.type)),
     scope |-> IF Truthy(m.scope) THEN m.scope ELSE Null,
     subject |-> Str(substring0(stripTrailingPeriod(toLowerCase(m.subject)), SUBJECT_MAX)),
     body |-> Arr(bulletItems(rest))]

\* lastResortRecord without the cut to 50 characters
lastResortRecord_NoCut(lines) ==
    [type |-> Str(<<"c", "h", "o", "r", "e">>),
     scope |-> Undefined,
     subject |-> Str(stripTrailingPeriod(
                    IF lines # <<>> THEN toLowerCase(lines[1]) ELSE PLACEHOLDER_SUBJECT)),
     body |-> Arr(<<>>)]

\* the "Last resort" record
lastResortRecord(lines) ==
    [type |-> Str(<<"c", "h", "o", "r", "e">>),
     scope |-> Undefined,
     subject |-> Str(stripTrailingPeriod(
                    IF lines # <<>> /\ toLowerCase(substring0(lines[1], SUBJECT_MAX)) # <<>>
                    THEN toLowerCase(substring0(lines[1], SUBJECT_MAX))
                    ELSE PLACEHOLDER_SUBJECT)),
     body |-> Arr(<<>>)]

extractCommitFromText(text) ==
    LET lines == SelectSeq(splitLines(text), LAMBDA l : trim(l) # <<>>)
        m == IF lines = <<>> THEN NoMatch ELSE conventionalMatch(lines[1])
    IN IF m.ok
       THEN [path |-> "conventional", data |-> conventionalRecord(m, Tail(lines))]
       ELSE [path |-> "lastResort", data |-> lastResortRecord(lines)]

\* the type after "Validate and correct type"
correctType(type) ==
    IF IsCommitType(type.v) THEN type
    ELSE IF Truthy(typeMapLookup(toLowerCase(type.v)))
         THEN typeMapLookup(toLowerCase(type.v))
         ELSE Str(<<"c", "h", "o", "r", "e">>)

\* the scope after "Validate optional fields"
validScope(scope) == IF scope.t # "undefined" /\ ~IsString(scope) THEN Undefined ELSE scope

\* the body after "Validate optional fields" and "Clean body items"
validBody(body) ==
    LET b == IF body.t \in {"undefined", "arr"} THEN body
             ELSE IF IsString(body) THEN Arr(<<body>>)
             ELSE Undefined
    IN IF b.t = "arr" THEN Arr(cleanBody(b.v)) ELSE b

parseCommitResponse(raw) ==
    LET cleaned == trim(stripTrailingFence(stripLeadingFence(stripLeadingJsonFence(trim(raw)))))
        jsonStr == IF matchBraces(cleaned) # <<>> THEN matchBraces(cleaned) ELSE cleaned
        r == JSONParse(jsonStr)
        parsed == r.val
        type == GetProp(parsed, KEY_TYPE)
        subject == GetProp(parsed, KEY_SUBJECT)
    IN IF ~r.ok \/ parsed.t = "null" THEN extractCommitFromText(raw)
       ELSE IF ~Truthy(type) \/ ~IsString(type) THEN extractCommitFromText(raw)
       ELSE IF ~Truthy(subject) \/ ~IsString(subject) THEN extractCommitFromText(raw)
       ELSE [path |-> "structured",
             data |-> [type |-> correctType(type),
                       scope |-> validScope(GetProp(parsed, KEY_SCOPE)),
                       subject |-> Str(cleanSubject(subject.v)),
                       body |-> validBody(GetProp(parsed, KEY_BODY))]]

(***************************************************************************)
(* Message formatter                                                       *)
(***************************************************************************)
\* formatCommitMessage with the body directly under the title line
formatCommitMessage_NoBlankLine(data) ==
    LET head == IF Truthy(data.scope)
                THEN ToStringJS(data.type) \o <<"(">> \o ToStringJS(data.scope)
                       \o <<")", ":", " ">> \o ToStringJS(data.subject)
                ELSE ToStringJS(data.type) \o <<":", " ">> \o ToStringJS(data.subject)
        items == [i \in 1..Len(data.body.v) |-> <<"-", " ">> \o ToStringJS(data.body.v[i])]
    IN IF data.body.t = "arr" /\ Len(data.body.v) > 0
       THEN head \o <<"\n">> \o join(items, <<"\n">>)
       ELSE head

formatCommitMessage(data) ==
    LET head == IF Truthy(data.scope)
                THEN ToStringJS(data.type) \o <<"(">> \o ToStringJS(data.scope)
                       \o <<")", ":", " ">> \o ToStringJS(data.subject)
                ELSE ToStringJS(data.type) \o <<":", " ">> \o ToStringJS(data.subject)
        items == [i \in 1..Len(data.body.v) |-> <<"-", " ">> \o ToStringJS(data.body.v[i])]
    IN IF data.body.t = "arr" /\ Len(data.body.v) > 0
       THEN head \o <<"\n", "\n">> \o join(items, <<"\n">>)
       ELSE head

(***************************************************************************)
(* Pattern matcher.  A call returns [threw, value]: threw is TRUE where    *)
(* the call ends with an exception instead of a value.                     *)
(***************************************************************************)
Returned(v) == [threw |-> FALSE, value |-> v]
Threw == [threw |-> TRUE, value |-> FALSE]

\* pattern.replace(/\./g, '\\.')
RECURSIVE escapeDots(_)
escapeDots(p) ==
    IF p = <<>> THEN <<>>
    ELSE (IF Head(p) = "." THEN <<"\\", ".">> ELSE <<Head(p)>>) \o escapeDots(Tail(p))

\* s.replace(/\*\*/g, '.*')
RECURSIVE replaceDoubleStars(_)
replaceDoubleStars(s) ==
    IF Len(s) < 2 THEN s
    ELSE IF s[1] = "*" /\ s[2] = "*"
         THEN <<".", "*">> \o replaceDoubleStars(From(s, 3))
         ELSE <<s[1]>> \o replaceDoubleStars(Tail(s))

\* s.replace(/\*/g, '[^/]*')
RECURSIVE replaceStars(_)
replaceStars(s) ==
    IF s = <<>> THEN <<>>
    ELSE (IF Head(s) = "*" THEN <<"[", "^", "/", "]", "*">> ELSE <<Head(s)>>)
             \o replaceStars(Tail(s))

\* the source handed to new RegExp
regexSource(pattern) ==
    <<"^">> \o replaceStars(replaceDoubleStars(escapeDots(pattern))) \o <<"$">>

\* a source compiles when no group closes before it opens and none stays
\* open; depth is the number of groups open so far
RECURSIVE GroupsBalanced(_, _)
GroupsBalanced(src, depth) ==
    IF src = <<>> THEN depth = 0
    ELSE IF Head(src) = "\\" THEN GroupsBalanced(From(src, 3), depth)
    ELSE IF Head(src) = "(" THEN GroupsBalanced(Tail(src), depth + 1)
    ELSE IF Head(src) = ")" THEN depth > 0 /\ GroupsBalanced(Tail(src), depth - 1)
    ELSE GroupsBalanced(Tail(src), depth)

\* the source as a sequence of regular-expression terms; a group without a
\* quantifier or an alternative matches what its content matches
RECURSIVE Terms(_, _)
Terms(src, first) ==
    IF src = <<>> THEN <<>>
    ELSE IF Head(src) = "\\" THEN <<[k |-> "lit", c |-> src[2]]>> \o Terms(From(src, 3), FALSE)
    ELSE IF startsWith(src, <<"[", "^", "/", "]", "*">>)
         THEN <<[k |-> "run", c |-> "/"]>> \o Terms(From(src, 6), FALSE)
    ELSE IF Head(src) \in {"(", ")"} THEN Terms(Tail(src), first)
    ELSE IF Head(src) = "^" /\ first THEN <<[k |-> "bol", c |-> ""]>> \o Terms(Tail(src), FALSE)
    ELSE IF Head(src) = "$" /\ Len(src) = 1 THEN <<[k |-> "eol", c |-> ""]>>
    ELSE IF Head(src) = "." THEN <<[k |-> "any", c |-> ""]>> \o Terms(Tail(src), FALSE)
    ELSE <<[k |-> "lit", c |-> Head(src)]>> \o Terms(Tail(src), FALSE)

\* new RegExp(src): ok is FALSE where the constructor throws SyntaxError
RegExp(src) ==
    IF GroupsBalanced(src, 0) THEN [ok |-> TRUE, terms |-> Terms(src, TRUE)]
    ELSE [ok |-> FALSE, terms |-> <<>>]

\* the terms from the k-th on match s from index i on
RECURSIVE MatchAt(_, _, _, _)
MatchAt(terms, k, s, i) ==
    IF k > Len(terms) THEN TRUE
    ELSE CASE terms[k].k = "bol" -> i = 1 /\ MatchAt(terms, k + 1, s, i)
           [] terms[k].k = "eol" -> i = Len(s) + 1 /\ MatchAt(terms, k + 1, s, i)
           [] terms[k].k = "lit" ->
                i <= Len(s) /\ s[i] = terms[k].c /\ MatchAt(terms, k + 1, s, i + 1)
           [] terms[k].k = "any" ->
                i <= Len(s) /\ s[i] # "\n" /\ MatchAt(terms, k + 1, s, i + 1)
           [] terms[k].k = "run" ->
                \E n \in 0..(Len(s) - i + 1) :
                    /\ \A m \in i..(i + n - 1) : s[m] # terms[k].c
                    /\ MatchAt(terms, k + 1, s, i + n)

\* regex.test(s)
RegExpTest(terms, s) == \E i \in 1..(Len(s) + 1) : MatchAt(terms, 1, s, i)

\* exactOrSuffix with the separator left out of the suffix
exactOrSuffix_NoSeparator(file, pattern) == file = pattern \/ endsWith(file, pattern)

\* file === pattern || file.endsWith('/' + pattern)
exactOrSuffix(file, pattern) == file = pattern \/ endsWith(file, <<"/">> \o pattern)

matchesPattern(file, pattern) ==
    IF includes(pattern, "*")
    THEN LET regex == RegExp(regexSource(pattern))
         IN IF regex.ok THEN Returned(RegExpTest(regex.terms, file)) ELSE Threw
    ELSE Returned(exactOrSuffix(file, pattern))

(***************************************************************************)
(* Exclusion resolver                                                      *)
(***************************************************************************)
DEFAULT_EXCLUDES == <<
    <<"p", "a", "c", "k", "a", "g", "e", "-", "l", "o", "c", "k", ".", "j", "s", "o", "n">>,
    <<"y", "a", "r", "n", ".", "l", "o", "c", "k">>,
    <<"p", "n", "p", "m", "-", "l", "o", "c", "k", ".", "y", "a", "m", "l">>,
    <<"b", "u", "n", ".", "l", "o", "c", "k", "b">>,
    <<"c", "o", "m", "p", "o", "s", "e", "r", ".", "l", "o", "c", "k">>,
    <<"G", "e", "m", "f", "i", "l", "e", ".", "l", "o", "c", "k">>,
    <<"p", "o", "e", "t", "r", "y", ".", "l", "o", "c", "k">>,
    <<"C", "a", "r", "g", "o", ".", "l", "o", "c", "k">>,
    <<"p", "u", "b", "s", "p", "e", "c", ".", "l", "o", "c", "k">>,
    <<"p", "a", "c", "k", "a", "g", "e", "s", ".", "l", "o", "c", "k", ".", "j", "s", "o", "n">>,
    <<"g", "r", "a", "d", "l", "e", ".", "l", "o", "c", "k", "f", "i", "l", "e">>,
    <<"f", "l", "a", "k", "e", ".", "l", "o", "c", "k">>>>

FIXED_EXCLUDE_PATTERNS == <<
    <<"*", ".", "m", "i", "n", ".", "j", "s">>,
    <<"*", ".", "m", "i", "n", ".", "c", "s", "s">>,
    <<"*", ".", "b", "u", "n", "d", "l", "e", ".", "j", "s">>,
    <<"*", ".", "c", "h", "u", "n", "k", ".", "j", "s">>,
    <<"d", "i", "s", "t", "/", "*">>,
    <<"b", "u", "i", "l", "d", "/", "*">>,
    <<".", "n", "e", "x", "t", "/", "*">>,
    <<".", "n", "u", "x", "t", "/", "*">>,
    <<".", "o", "u", "t", "p", "u", "t", "/", "*">>,
    <<"*", ".", "m", "a", "p">>,
    <<"*", ".", "g", "e", "n", "e", "r", "a", "t", "e", "d", ".", "*">>,
    <<"*", ".", "w", "o", "f", "f">>,
    <<"*", ".", "w", "o", "f", "f", "2">>,
    <<"*", ".", "t", "t", "f">>,
    <<"*", ".", "e", "o", "t">>,
    <<"*", ".", "i", "c", "o">>,
    <<".", "p", "n", "p", ".", "c", "j", "s">>,
    <<".", "p", "n", "p", ".", "l", "o", "a", "d", "e", "r", ".", "m", "j", "s">>,
    <<".", "y", "a", "r", "n", "/", "c", "a", "c", "h", "e", "/", "*">>,
    <<".", "y", "a", "r", "n", "/", "i", "n", "s", "t", "a", "l", "l", "-", "s", "t", "a", "t", "e", ".", "g", "z">>>>

\* patterns.some(pattern => matchesPattern(file, pattern)): the patterns are
\* tried in order up to the first that matches or throws
RECURSIVE somePatternMatches(_, _)
somePatternMatches(file, patterns) ==
    IF patterns = <<>> THEN Returned(FALSE)
    ELSE LET r == matchesPattern(file, Head(patterns))
         IN IF r.threw \/ r.value THEN r ELSE somePatternMatches(file, Tail(patterns))

\* files.filter(file => patterns.some(...) === keep): the files are tested in
\* order up to the first test that throws
RECURSIVE filterByPatterns(_, _, _)
filterByPatterns(files, patterns, keep) ==
    IF files = <<>> THEN Returned(<<>>)
    ELSE LET r == somePatternMatches(Head(files), patterns)
             rest == filterByPatterns(Tail(files), patterns, keep)
         IN IF r.threw \/ rest.threw THEN [threw |-> TRUE, value |-> <<>>]
            ELSE Returned((IF r.value = keep THEN <<Head(files)>> ELSE <<>>) \o rest.value)

getExcludedStagedFiles(staged, configured) ==
    filterByPatterns(staged, configured \o FIXED_EXCLUDE_PATTERNS, TRUE)

\* filename.replace(/(['"\\$`!])/g, '\\$1')
RECURSIVE sanitizeForShell(_)
sanitizeForShell(name) ==
    IF name = <<>> THEN <<>>
    ELSE (IF Head(name) \in {"'", "\"", "\\", "$", "U+0060", "!"}
          THEN <<"\\", Head(name)>> ELSE <<Head(name)>>) \o sanitizeForShell(Tail(name))

\* the text of exclude pathspecs, empty when no staged file is excluded
buildExcludePatterns(staged, configured) ==
    LET r == filterByPatterns(staged, configured \o FIXED_EXCLUDE_PATTERNS, TRUE)
        spec(f) == <<"'", ":", "(", "e", "x", "c", "l", "u", "d", "e", ")">>
                       \o sanitizeForShell(f) \o <<"'">>
    IN IF r.threw THEN r
       ELSE Returned(join([i \in 1..Len(r.value) |-> spec(r.value[i])], <<" ">>))

\* the explicit paths of the diff command in getStagedDiff
filesToIncludeOf(staged, configured) ==
    filterByPatterns(staged, configured \o FIXED_EXCLUDE_PATTERNS, FALSE)

(***************************************************************************)
(* Inputs of the normalizer: the model replies the checks draw from        *)
(***************************************************************************)
MaxRawLen == 3
MaxTailLen == 2

SeqsUpTo(S, n) == UNION {[1..k -> S] : k \in 0..n}

\* every text of at most MaxRawLen characters over these characters
RawAlphabet == {"a", "A", ".", " ", "\n", "{", "}"}
ShortInputs == SeqsUpTo(RawAlphabet, MaxRawLen)

\* subjects around the length limit: a run of "x" and every tail of at most
\* MaxTailLen characters
TailAlphabet == {"a", "B", ".", " ", "U+0130"}
Fill(n) == [i \in 1..n |-> "x"]
SubjectInputs ==
    {Fill(n) \o t : n \in {0, SUBJECT_MAX - 2, SUBJECT_MAX - 1, SUBJECT_MAX},
                    t \in SeqsUpTo(TailAlphabet, MaxTailLen)}
FewSubjects == {<<"x">>, <<"A", "d", "d", " ", "L", "o", "g", "i", "n", ".">>}

TypeInputs == {
    <<"f", "e", "a", "t">>,
    <<"f", "i", "x">>,
    <<"d", "o", "c", "s">>,
    <<"s", "t", "y", "l", "e">>,
    <<"r", "e", "f", "a", "c", "t", "o", "r">>,
    <<"p", "e", "r", "f">>,
    <<"t", "e", "s", "t">>,
    <<"b", "u", "i", "l", "d">>,
    <<"c", "i">>,
    <<"c", "h", "o", "r", "e">>,
    <<"r", "e", "v", "e", "r", "t">>,
    <<"f", "e", "a", "t", "u", "r", "e">>,
    <<"b", "u", "g", "f", "i", "x">>,
    <<"b", "u", "g">>,
    <<"d", "o", "c">>,
    <<"d", "o", "c", "u", "m", "e", "n", "t", "a", "t", "i", "o", "n">>,
    <<"t", "e", "s", "t", "s">>,
    <<"t", "e", "s", "t", "i", "n", "g">>,
    <<"p", "e", "r", "f", "o", "r", "m", "a", "n", "c", "e">>,
    <<"m", "a", "i", "n", "t", "e", "n", "a", "n", "c", "e">>,
    <<"u", "p", "d", "a", "t", "e">>,
    <<"w", "i", "p">>,
    <<"F", "e", "a", "t", "u", "r", "e">>,
    <<"F", "E", "A", "T">>,
    <<"B", "U", "G", "F", "I", "X">>,
    <<"W", "i", "p">>,
    <<"c", "o", "n", "s", "t", "r", "u", "c", "t", "o", "r">>,
    <<"C", "o", "n", "s", "t", "r", "u", "c", "t", "o", "r">>,
    <<"_", "_", "p", "r", "o", "t", "o", "_", "_">>,
    <<"o", "t", "h", "e", "r">>,
    <<"f", "i", "x", "e", "s">>,
    <<" ", "f", "i", "x">>,
    <<"U+0130">>}
FewTypes == {<<"f", "i", "x">>, <<"f", "e", "a", "t", "u", "r", "e">>, <<"o", "t", "h", "e", "r">>}

Quoted(s) == <<"\"">> \o s \o <<"\"">>
Member(k, valueText) == <<Quoted(k) \o <<":">> \o valueText>>
ObjectText(members) == <<"{">> \o join(members, <<",">>) \o <<"}">>
TypeAndSubject(t, s) == Member(KEY_TYPE, Quoted(t)) \o Member(KEY_SUBJECT, Quoted(s))

\* JSON texts of a scope and of a body; <<>> stands for a missing member
ScopeTexts == {<<>>} \cup {
    <<"\"", "a", "u", "t", "h", "\"">>,
    <<"\"", "\"">>,
    <<"1">>,
    <<"n", "u", "l", "l">>,
    <<"[", "\"", "a", "\"", "]">>}
BodyTexts == {<<>>} \cup {
    <<"\"", "o", "n", "e", " ", "l", "i", "n", "e", "\"">>,
    <<"\"", " ", "o", "n", "e", " ", "\"">>,
    <<"\"", "\"">>,
    <<"[", "]">>,
    <<"[", "\"", "a", " ", "\"", ",", " ", "1", ",", " ", "\"", " ", "\"", ",", " ", "\"", "b", "\"", "]">>,
    <<"[", " ", "\"", "f", "i", "r", "s", "t", "\"", " ", ",", " ", "\"", "s", "e", "c", "o", "n", "d", "\"", " ", "]">>,
    <<"n", "u", "l", "l">>,
    <<"1">>,
    <<"{", "\"", "a", "\"", ":", "1", "}">>}
OptMember(k, text) == IF text = <<>> THEN <<>> ELSE Member(k, text)

StructuredInputs ==
    {ObjectText(TypeAndSubject(t, s)) : t \in TypeInputs, s \in FewSubjects}
    \cup {ObjectText(TypeAndSubject(t, s)) : t \in FewTypes, s \in SubjectInputs}
    \cup {ObjectText(Member(KEY_TYPE, Quoted(<<"f", "i", "x">>)) \o OptMember(KEY_SCOPE, sc)
                     \o Member(KEY_SUBJECT, Quoted(<<"x">>)) \o OptMember(KEY_BODY, b)) :
            sc \in ScopeTexts, b \in BodyTexts}

\* replies that are no object with a type and a subject
MalformedInputs == {
    <<"{", "\"", "t", "y", "p", "e", "\"", ":", "\"", "f", "i", "x", "\"", "}">>,
    <<"{", "\"", "s", "u", "b", "j", "e", "c", "t", "\"", ":", "\"", "x", "\"", "}">>,
    <<"{", "\"", "t", "y", "p", "e", "\"", ":", "1", ",", "\"", "s", "u", "b", "j", "e", "c", "t", "\"", ":", "\"", "x", "\"", "}">>,
    <<"{", "\"", "t", "y", "p", "e", "\"", ":", "\"", "f", "i", "x", "\"", ",", "\"", "s", "u", "b", "j", "e", "c", "t", "\"", ":", "n", "u", "l", "l", "}">>,
    <<"{", "\"", "t", "y", "p", "e", "\"", ":", "\"", "f", "i", "x", "\"", ",", "\"", "s", "u", "b", "j", "e", "c", "t", "\"", ":", "\"", "\"", "}">>,
    <<"{", "\"", "t", "y", "p", "e", "\"", ":", "\"", "\"", ",", "\"", "s", "u", "b", "j", "e", "c", "t", "\"", ":", "\"", "x", "\"", "}">>,
    <<"{", "\"", "t", "y", "p", "e", "\"", ":", "n", "u", "l", "l", ",", "\"", "s", "u", "b", "j", "e", "c", "t", "\"", ":", "\"", "x", "\"", "}">>,
    <<"{", "\"", "t", "y", "p", "e", "\"", ":", "[", "\"", "f", "i", "x", "\"", "]", ",", "\"", "s", "u", "b", "j", "e", "c", "t", "\"", ":", "\"", "x", "\"", "}">>,
    <<"n", "u", "l", "l">>,
    <<"t", "r", "u", "e">>,
    <<"1">>,
    <<"\"", "a", "b", "c", "\"">>,
    <<"[", "1", "]">>,
    <<"[", "]">>,
    <<"{", "}">>,
    <<"[", "{", "\"", "t", "y", "p", "e", "\"", ":", "\"", "f", "i", "x", "\"", ",", "\"", "s", "u", "b", "j", "e", "c", "t", "\"", ":", "\"", "x", "\"", "}", "]">>,
    <<"{", "\"", "t", "y", "p", "e", "\"", ":", "\"", "f", "i", "x", "\"", ",", "\"", "s", "u", "b", "j", "e", "c", "t", "\"", ":", "\"", "x", "\"", ",", "}">>,
    <<"{", "\"", "t", "y", "p", "e", "\"", ":", "\"", "f", "i", "x", "\"", " ", "\"", "s", "u", "b", "j", "e", "c", "t", "\"", ":", "\"", "x", "\"", "}">>,
    <<"{", "t", "y", "p", "e", ":", "\"", "f", "i", "x", "\"", ",", "s", "u", "b", "j", "e", "c", "t", ":", "\"", "x", "\"", "}">>,
    <<"{", "\"", "t", "y", "p", "e", "\"", ":", "\"", "f", "i", "x", "\"", ",", "\"", "s", "u", "b", "j", "e", "c", "t", "\"", ":", "\"", "x", "\"">>,
    <<"{", "\"", "a", "\"", ":", "{", "\"", "t", "y", "p", "e", "\"", ":", "\"", "f", "i", "x", "\"", ",", "\"", "s", "u", "b", "j", "e", "c", "t", "\"", ":", "\"", "x", "\"", "}", "}">>,
    <<"{", "\"", "t", "y", "p", "e", "\"", ":", "\"", "f", "i", "x", "\"", ",", "\"", "s", "u", "b", "j", "e", "c", "t", "\"", ":", "\"", "x", "\"", "}", " ", "}">>,
    <<"{", " ", "\"", "t", "y", "p", "e", "\"", " ", ":", " ", "\"", "f", "e", "a", "t", "u", "r", "e", "\"", " ", ",", "\n", " ", " ", "\"", "s", "u", "b", "j", "e", "c", "t", "\"", " ", ":", " ", "\"", "A", "d", "d", " ", "X", ".", "\"", " ", "}">>,
    <<"{", "\"", "t", "y", "p", "e", "\"", ":", "\"", "f", "i", "x", "\"", ",", "\"", "s", "u", "b", "j", "e", "c", "t", "\"", ":", "\"", "x", "\"", ",", "\"", "t", "y", "p", "e", "\"", ":", "\"", "d", "o", "c", "s", "\"", "}">>,
    <<"{", "\"", "t", "y", "p", "e", "\"", ":", "\"", "f", "i", "x", "\"", ",", "\"", "s", "u", "b", "j", "e", "c", "t", "\"", ":", "\"", "a", "\n", "b", "\"", "}">>,
    <<"a", " ", "}", " ", "{", "\"", "t", "y", "p", "e", "\"", ":", "\"", "f", "i", "x", "\"", ",", "\"", "s", "u", "b", "j", "e", "c", "t", "\"", ":", "\"", "x", "\"", "}">>,
    <<"{", "\"", "t", "y", "p", "e", "\"", ":", "\"", "f", "i", "x", "\"", ",", "\"", "s", "u", "b", "j", "e", "c", "t", "\"", ":", "\"", "x", "\"", "}", " ", "a", "n", "d", " ", "{", "\"", "t", "y", "p", "e", "\"", ":", "\"", "d", "o", "c", "s", "\"", ",", "\"", "s", "u", "b", "j", "e", "c", "t", "\"", ":", "\"", "y", "\"", "}">>}

\* the first line of a conventional reply, piece by piece
LineTypes == {
    <<"f", "e", "a", "t">>,
    <<"F", "I", "X">>,
    <<"D", "o", "c", "s">>,
    <<"c", "i">>,
    <<"f", "e", "a", "t", "u", "r", "e">>}
LineScopes == {<<>>} \cup {
    <<"(", "a", "u", "t", "h", ")">>,
    <<"(", "A", " ", "b", ")">>,
    <<"(", ")">>,
    <<"(", "a", ")", "(", "b", ")">>,
    <<"(", "a">>}
LineSeparators == {
    <<":", " ">>,
    <<":">>,
    <<":", " ", " ", "\t">>,
    <<" ", ":", " ">>}
LineSubjects == {<<"a", "d", "d", " ", "l", "o", "g", "i", "n">>, <<"H", "a", "n", "d", "l", "e", " ", "N", "u", "l", "l", " ", "T", "o", "k", "e", "n", ".">>, <<"x", ".", ".">>, <<" ">>, <<>>, <<"U+0130">>}
        \cup {Fill(SUBJECT_MAX - 1) \o t : t \in {<<".">>, <<".", "a">>, <<"A", ".">>}}
LineBodies == {<<>>} \cup {
    <<"\n", "-", " ", "s", "t", "e", "p", " ", "o", "n", "e", "\n", "-", " ", "s", "t", "e", "p", " ", "t", "w", "o">>,
    <<"\n", "\n", "*", " ", "a", "\n", " ", " ", "-", " ", "b", "\n", "-", "c", "\n", "t", "e", "x", "t", "\n", "-", "-", "\n", "-", "\n", "*", " ", " ", "d", " ">>,
    <<"\n", "p", "l", "a", "i", "n", " ", "t", "e", "x", "t">>}

ConventionalInputs ==
    {t \o sc \o sep \o s :
        t \in LineTypes, sc \in LineScopes, sep \in LineSeparators,
        s \in {<<>>, <<"A", "d", "d", " ", "x", ".">>}}
    \cup {<<"F", "i", "x">> \o sc \o <<":", " ">> \o s \o b :
            sc \in {<<>>, <<"(", "a", "u", "t", "h", ")">>},
            s \in LineSubjects, b \in LineBodies}
    \cup {<<"f", "i", "x", "(", "a", "u", "t", "h", ")", ":", " ", "h", "a", "n", "d", "l", "e", " ", "n", "u", "l", "l", " ", "t", "o", "k", "e", "n", "\n", "-", " ", "g", "u", "a", "r", "d", " ", "a", "g", "a", "i", "n", "s", "t", " ", "e", "m", "p", "t", "y", " ", "h", "e", "a", "d", "e", "r">>, <<"\n", " ", "\n", "f", "e", "a", "t", ":", " ", "l", "a", "t", "e", " ", "f", "i", "r", "s", "t", " ", "l", "i", "n", "e", "\n", "*", " ", "i", "t", "e", "m">>, <<" ", " ", "f", "e", "a", "t", ":", " ", "i", "n", "d", "e", "n", "t", "e", "d">>, <<"-", " ", "f", "e", "a", "t", ":", " ", "b", "u", "l", "l", "e", "t", " ", "f", "i", "r", "s", "t">>}

\* a reply inside a code fence, or with prose around it
Prefixes == {<<>>} \cup {
    <<"U+0060", "U+0060", "U+0060", "j", "s", "o", "n", "\n">>,
    <<"U+0060", "U+0060", "U+0060", "\n">>,
    <<"U+0060", "U+0060", "U+0060", "J", "S", "O", "N", " ", " ">>,
    <<"U+0060", "U+0060", "U+0060", " ", "j", "s", "o", "n", "\n">>,
    <<"H", "e", "r", "e", " ", "y", "o", "u", " ", "g", "o", ":", " ">>,
    <<" ", "\n">>}
Suffixes == {<<>>} \cup {
    <<"\n", "U+0060", "U+0060", "U+0060">>,
    <<"U+0060", "U+0060", "U+0060", " ", "\n">>,
    <<"\n", "U+0060", "U+0060", "U+0060", " ", "U+0060", "U+0060", "U+0060">>,
    <<" ", "d", "o", "n", "e", ".">>}
WrappedCores == {
    <<"{", "\"", "t", "y", "p", "e", "\"", ":", "\"", "f", "e", "a", "t", "u", "r", "e", "\"", ",", "\"", "s", "u", "b", "j", "e", "c", "t", "\"", ":", "\"", "A", "d", "d", " ", "X", ".", "\"", ",", "\"", "b", "o", "d", "y", "\"", ":", "[", "\"", "a", "\"", "]", "}">>,
    <<"{", "\"", "t", "y", "p", "e", "\"", ":", "\"", "f", "i", "x", "\"", "}">>,
    <<"f", "e", "a", "t", "(", "a", "u", "t", "h", ")", ":", " ", "a", "d", "d", " ", "l", "o", "g", "i", "n", "\n", "-", " ", "s", "t", "e", "p", " ", "o", "n", "e">>,
    <<"n", "o", " ", "s", "t", "r", "u", "c", "t", "u", "r", "e", " ", "h", "e", "r", "e", " ", "a", "t", " ", "a", "l", "l">>,
    <<>>}
WrappedInputs == {p \o c \o s : p \in Prefixes, c \in WrappedCores, s \in Suffixes}

NormInputs ==
    ShortInputs \cup SubjectInputs \cup StructuredInputs \cup MalformedInputs
        \cup ConventionalInputs \cup WrappedInputs

(***************************************************************************)
(* generateCommitMessage, from the model reply on: the reply is parsed and *)
(* the record is formatted                                                 *)
(***************************************************************************)
NoData == [type |-> Undefined, scope |-> Undefined, subject |-> Undefined, body |-> Undefined]

\* the variables of the normalizer, of the matcher and of the exclusion
\* resolver while another part of the program is the one running
NormIdle ==
    rawResponse = <<>> /\ commitData = NoData /\ parsePath = "none" /\ message = <<>>
MatchIdle == argFile = <<>> /\ argPattern = <<>> /\ matched = Returned(FALSE)
NoOptions == [cmd |-> "none", arg |-> <<>>]
ExclIdle ==
    /\ excludeFiles = DEFAULT_EXCLUDES /\ stagedFiles = <<>>
    /\ excludedFiles = <<>> /\ filesToInclude = <<>>
    /\ options = NoOptions /\ configSet = FALSE

NoResult == [kind |-> "none", text |-> <<>>]
NoError == [cause |-> "none", message |-> <<>>]
DiffIdle ==
    /\ steps = <<>> /\ diffArgs = <<>> /\ diffCommand = <<>>
    /\ result = NoResult /\ caught = NoError
DEFAULT_MODEL == "llama3.2"
NoAction == [choice |-> "none", edited |-> <<>>, confirm |-> FALSE]
GenIdle ==
    /\ filesWithStatus = <<>> /\ analyzedFiles = <<>> /\ requests = 0
    /\ commitMessage = <<>> /\ action = NoAction /\ commitCalls = <<>>
    /\ report = "none" /\ diffStats = <<>> /\ gitQueries = <<>>
    /\ ollamaModel = DEFAULT_MODEL /\ requestLog = <<>>
    /\ displayed = <<>> /\ commitOk = "none"
TruncIdle == diffLines = <<>> /\ truncated = <<>>
NoResponse == [status |-> 0, body |-> <<>>]
NoThrown == [name |-> "none", message |-> <<>>]
FetchIdle ==
    /\ clock = 0 /\ timer = "none" /\ response = NoResponse
    /\ rejection = NoThrown /\ thrown = NoThrown
TmpIdle == tmpdir = {} /\ issued = {} /\ calls = <<>>
DEFAULT_PORT == 11434
CliIdle == ollamaPort = DEFAULT_PORT /\ portArg = <<>> /\ exitCode = "none"
LaterIdle == TruncIdle /\ FetchIdle /\ TmpIdle /\ CliIdle
FlowIdle == DiffIdle /\ GenIdle /\ LaterIdle

InitNorm ==
    /\ pc = "reply"
    /\ rawResponse \in NormInputs
    /\ commitData = NoData
    /\ parsePath = "none"
    /\ message = <<>>
    /\ MatchIdle /\ ExclIdle /\ FlowIdle

ParseCommitResponse ==
    /\ pc = "reply"
    /\ LET r == parseCommitResponse(rawResponse)
       IN commitData' = r.data /\ parsePath' = r.path
    /\ pc' = "parsed"
    /\ UNCHANGED <<rawResponse, message, matchVars, exclVars, flowVars>>

FormatCommitMessage ==
    /\ pc = "parsed"
    /\ message' = formatCommitMessage(commitData)
    /\ pc' = "formatted"
    /\ UNCHANGED <<rawResponse, commitData, parsePath, matchVars, exclVars, flowVars>>

NextNorm == ParseCommitResponse \/ FormatCommitMessage

SpecNorm == InitNorm /\ [][NextNorm]_vars

(***************************************************************************)
(* One call of matchesPattern                                              *)
(***************************************************************************)
MaxPathLen == 3
MaxPatternLen == 3

PathAlphabet == {"a", "/", "."}
PatternAlphabet == {"a", "/", ".", "*", "("}

NamedPaths == {
    <<"d", "i", "s", "t", "/", "a", "p", "p", ".", "j", "s">>,
    <<"s", "r", "c", "/", "d", "i", "s", "t", "/", "a", "p", "p", ".", "j", "s">>,
    <<"d", "i", "s", "t", "/", "j", "s", "/", "a", "p", "p", ".", "j", "s">>,
    <<"p", "a", "c", "k", "a", "g", "e", "-", "l", "o", "c", "k", ".", "j", "s", "o", "n">>,
    <<"s", "u", "b", "/", "p", "a", "c", "k", "a", "g", "e", "-", "l", "o", "c", "k", ".", "j", "s", "o", "n">>,
    <<"x", "p", "a", "c", "k", "a", "g", "e", "-", "l", "o", "c", "k", ".", "j", "s", "o", "n">>,
    <<"a", "p", "p", ".", "m", "i", "n", ".", "j", "s">>,
    <<"s", "r", "c", "/", "v", "e", "n", "d", "o", "r", "/", "a", "p", "p", ".", "m", "i", "n", ".", "j", "s">>,
    <<"a", "p", "p", "x", "m", "i", "n", ".", "j", "s">>,
    <<"s", "r", "c", "/", "a", ".", "j", "s">>,
    <<"a", ".", "m", "a", "p">>,
    <<"s", "r", "c", "/", "a", ".", "m", "a", "p">>,
    <<"a", "/", "b", "/", "c">>,
    <<"a", "b">>}
NamedPatterns == {
    <<"*", ".", "l", "o", "g">>,
    <<"d", "o", "c", "s", "/", "*">>,
    <<"*", "(">>,
    <<"(", "*", ")">>,
    <<"*", ")">>,
    <<"*", "*", "/", "a", ".", "j", "s">>,
    <<"a", "*", "*">>,
    <<"*", "*">>,
    <<"a", "*", "c">>,
    <<"*", "/", "*">>}

Range(s) == {s[i] : i \in 1..Len(s)}

MatchPaths == SeqsUpTo(PathAlphabet, MaxPathLen) \cup NamedPaths
MatchPatterns ==
    SeqsUpTo(PatternAlphabet, MaxPatternLen) \cup NamedPatterns
        \cup Range(DEFAULT_EXCLUDES) \cup Range(FIXED_EXCLUDE_PATTERNS)

InitMatch ==
    /\ pc = "match"
    /\ argFile \in MatchPaths
    /\ argPattern \in MatchPatterns
    /\ matched = Returned(FALSE)
    /\ NormIdle /\ ExclIdle /\ FlowIdle

MatchesPattern ==
    /\ pc = "match"
    /\ matched' = matchesPattern(argFile, argPattern)
    /\ pc' = IF matched'.threw THEN "matchThrew" ELSE "matchReturned"
    /\ UNCHANGED <<argFile, argPattern, normVars, exclVars, flowVars>>

NextMatch == MatchesPattern

SpecMatch == InitMatch /\ [][NextMatch]_vars

(***************************************************************************)
(* The exclusion list and its use.  Each of --add-exclude, --remove-exclude *)
(* and --reset-excludes is one run of the program; a run without options   *)
(* is generateCommit, modelled up to the choice of the paths to diff.       *)
(***************************************************************************)
MaxStaged == 2

\* the arguments of --add-exclude and --remove-exclude
ExcludeArgs == {
    <<"p", "a", "c", "k", "a", "g", "e", "-", "l", "o", "c", "k", ".", "j", "s", "o", "n">>,
    <<"*", ".", "l", "o", "g">>,
    <<"*", "(">>}

\* the paths git may list as staged
StagedPaths == {
    <<"s", "r", "c", "/", "a", ".", "j", "s">>,
    <<"p", "a", "c", "k", "a", "g", "e", "-", "l", "o", "c", "k", ".", "j", "s", "o", "n">>,
    <<"s", "r", "c", "/", "v", "e", "n", "d", "o", "r", "/", "a", "p", "p", ".", "m", "i", "n", ".", "j", "s">>,
    <<"d", "i", "s", "t", "/", "a", "p", "p", ".", "j", "s">>,
    <<"d", "e", "b", "u", "g", ".", "l", "o", "g">>}

\* the lists of at most n distinct staged paths
NoRepeat(l) == \A i, j \in 1..Len(l) : i # j => l[i] # l[j]
StagedLists(n) == {l \in SeqsUpTo(StagedPaths, n) : NoRepeat(l)}

InitExcl ==
    /\ pc = "cli"
    /\ NormIdle /\ MatchIdle /\ ExclIdle /\ FlowIdle

\* excludes.indexOf(file): the first index of file, 0 for the -1 of the code
indexOf(list, file) ==
    IF \E i \in 1..Len(list) : list[i] = file
    THEN CHOOSE i \in 1..Len(list) :
            list[i] = file /\ \A j \in 1..(i - 1) : list[j] # file
    ELSE 0

\* excludes.splice(index, 1)
splice1(list, index) == SubSeq(list, 1, index - 1) \o SubSeq(list, index + 1, Len(list))

\* addExclude with the test of presence left out
addExclude_NoCheck(arg) ==
    /\ pc = "cli"
    /\ options' = [cmd |-> "addExclude", arg |-> arg]
    /\ excludeFiles' = Append(excludeFiles, arg)
    /\ configSet' = TRUE
    /\ UNCHANGED <<pc, stagedFiles, excludedFiles, filesToInclude, normVars, matchVars, flowVars>>

\* mkcommit --add-exclude <file>
addExclude(arg) ==
    /\ pc = "cli"
    /\ options' = [cmd |-> "addExclude", arg |-> arg]
    /\ IF arg \in Range(excludeFiles)
       THEN excludeFiles' = excludeFiles /\ configSet' = FALSE
       ELSE excludeFiles' = Append(excludeFiles, arg) /\ configSet' = TRUE
    /\ UNCHANGED <<pc, stagedFiles, excludedFiles, filesToInclude, normVars, matchVars, flowVars>>

\* mkcommit --remove-exclude <file>
removeExclude(arg) ==
    /\ pc = "cli"
    /\ options' = [cmd |-> "removeExclude", arg |-> arg]
    /\ LET index == indexOf(excludeFiles, arg)
       IN IF index = 0
          THEN excludeFiles' = excludeFiles /\ configSet' = FALSE
          ELSE excludeFiles' = splice1(excludeFiles, index) /\ configSet' = TRUE
    /\ UNCHANGED <<pc, stagedFiles, excludedFiles, filesToInclude, normVars, matchVars, flowVars>>

\* mkcommit --reset-excludes
resetExcludes ==
    /\ pc = "cli"
    /\ options' = [cmd |-> "resetExcludes", arg |-> <<>>]
    /\ excludeFiles' = DEFAULT_EXCLUDES
    /\ configSet' = TRUE
    /\ UNCHANGED <<pc, stagedFiles, excludedFiles, filesToInclude, normVars, matchVars, flowVars>>

\* mkcommit without options, generateCommit: const stagedFiles = getStagedFiles()
getStagedFiles(listed) ==
    /\ pc = "cli"
    /\ options' = [cmd |-> "generate", arg |-> <<>>]
    /\ configSet' = FALSE
    /\ stagedFiles' = listed
    /\ pc' = "staged"
    /\ UNCHANGED <<excludeFiles, excludedFiles, filesToInclude, normVars, matchVars, flowVars>>

\* generateCommit: const excludedFiles = getExcludedStagedFiles(stagedFiles);
\* an exception leaves generateCommit for the handler that exits with code 1
GetExcludedStagedFiles ==
    /\ pc = "staged"
    /\ LET r == getExcludedStagedFiles(stagedFiles, excludeFiles)
       IN \/ /\ ~r.threw
             /\ excludedFiles' = r.value
             /\ pc' = "excluded"
          \/ /\ r.threw
             /\ excludedFiles' = excludedFiles
             /\ pc' = "exit1"
    /\ UNCHANGED <<excludeFiles, stagedFiles, filesToInclude, options, configSet, normVars, matchVars, flowVars>>

\* getStagedDiff, from the staged list to the paths of the diff command:
\* without a staged file it returns null; without an excluded file the diff
\* takes no path and covers every staged file; else it takes filesToInclude
GetStagedDiffPaths ==
    /\ pc = "excluded"
    /\ LET ex == buildExcludePatterns(stagedFiles, excludeFiles)
           inc == filesToIncludeOf(stagedFiles, excludeFiles)
       IN \/ /\ stagedFiles = <<>>
             /\ filesToInclude' = <<>>
             /\ pc' = "diffNull"
          \/ /\ stagedFiles # <<>> /\ ~ex.threw /\ ex.value = <<>>
             /\ filesToInclude' = stagedFiles
             /\ pc' = "diffPaths"
          \/ /\ stagedFiles # <<>> /\ ~ex.threw /\ ex.value # <<>> /\ ~inc.threw
             /\ filesToInclude' = inc.value
             /\ pc' = IF inc.value = <<>> THEN "diffNull" ELSE "diffPaths"
          \/ /\ stagedFiles # <<>> /\ (ex.threw \/ inc.threw)
             /\ filesToInclude' = filesToInclude
             /\ pc' = "exit1"
    /\ UNCHANGED <<excludeFiles, stagedFiles, excludedFiles, options, configSet, normVars, matchVars, flowVars>>

NextExcl ==
    \/ \E arg \in ExcludeArgs : addExclude(arg)
    \/ \E arg \in ExcludeArgs : removeExclude(arg)
    \/ resetExcludes
    \/ \E listed \in StagedLists(MaxStaged) : getStagedFiles(listed)
    \/ GetExcludedStagedFiles
    \/ GetStagedDiffPaths

SpecExcl == InitExcl /\ [][NextExcl]_vars

(***************************************************************************)
(* getStagedDiff.  The results of the git commands are inputs of the       *)
(* steps that run them.  A failing execSync throws an Error whose message  *)
(* is "Command failed: <command>\n<stderr>", or "spawnSync /bin/sh         *)
(* ENOBUFS" where the output exceeds maxBuffer.                            *)
(***************************************************************************)
NOT_A_REPOSITORY == <<"Y", "o", "u", " ", "a", "r", "e", " ", "n", "o", "t", " ", "i", "n", " ", "a", " ", "g", "i", "t", " ", "r", "e", "p", "o", "s", "i", "t", "o", "r", "y", ".", " ", "R", "u", "n", " ", "t", "h", "i", "s", " ", "c", "o", "m", "m", "a", "n", "d", " ", "f", "r", "o", "m", " ", "w", "i", "t", "h", "i", "n", " ", "a", " ", "g", "i", "t", " ", "p", "r", "o", "j", "e", "c", "t", ".">>
DIFF_TOO_LARGE == <<"T", "h", "e", " ", "d", "i", "f", "f", " ", "i", "s", " ", "t", "o", "o", " ", "l", "a", "r", "g", "e", ".", " ", "C", "o", "n", "s", "i", "d", "e", "r", " ", "m", "a", "k", "i", "n", "g", " ", "s", "m", "a", "l", "l", "e", "r", " ", "c", "o", "m", "m", "i", "t", "s", ".">>
GIT_ERROR_PREFIX == <<"G", "i", "t", " ", "e", "r", "r", "o", "r", ":", " ">>
NEEDLE_NOT_A_REPOSITORY == <<"n", "o", "t", " ", "a", " ", "g", "i", "t", " ", "r", "e", "p", "o", "s", "i", "t", "o", "r", "y">>
NEEDLE_NO_INDEX == <<"-", "-", "n", "o", "-", "i", "n", "d", "e", "x">>
NEEDLE_ENOBUFS == <<"E", "N", "O", "B", "U", "F", "S">>
NEEDLE_MAX_BUFFER == <<"m", "a", "x", "B", "u", "f", "f", "e", "r">>
LIST_COMMAND == <<"g", "i", "t", " ", "d", "i", "f", "f", " ", "-", "-", "c", "a", "c", "h", "e", "d", " ", "-", "-", "n", "a", "m", "e", "-", "o", "n", "l", "y">>
DIFF_ARGS == <<<<"d", "i", "f", "f">>, <<"-", "-", "c", "a", "c", "h", "e", "d">>, <<"-", "-", "n", "o", "-", "c", "o", "l", "o", "r">>, <<"-", "-">>>>

\* errorMsg.includes(needle)
includesText(s, needle) ==
    \E i \in 1..(Len(s) - Len(needle) + 1) : SubSeq(s, i, i + Len(needle) - 1) = needle

\* the message of the Error execSync throws
STDERR_NOT_A_REPOSITORY == <<"f", "a", "t", "a", "l", ":", " ", "n", "o", "t", " ", "a", " ", "g", "i", "t", " ", "r", "e", "p", "o", "s", "i", "t", "o", "r", "y", " ", "(", "o", "r", " ", "a", "n", "y", " ", "o", "f", " ", "t", "h", "e", " ", "p", "a", "r", "e", "n", "t", " ", "d", "i", "r", "e", "c", "t", "o", "r", "i", "e", "s", ")", ":", " ", ".", "g", "i", "t", "\n">>
STDERR_OTHER == <<"f", "a", "t", "a", "l", ":", " ", "u", "n", "a", "b", "l", "e", " ", "t", "o", " ", "r", "e", "a", "d", " ", "t", "h", "e", " ", "i", "n", "d", "e", "x", "\n">>
execSyncError(command, cause) ==
    IF cause = "ENOBUFS" THEN <<"s", "p", "a", "w", "n", "S", "y", "n", "c", " ", "/", "b", "i", "n", "/", "s", "h", " ", "E", "N", "O", "B", "U", "F", "S">>
    ELSE <<"C", "o", "m", "m", "a", "n", "d", " ", "f", "a", "i", "l", "e", "d", ":", " ">> \o command \o <<"\n">>
            \o (IF cause = "notRepository" THEN STDERR_NOT_A_REPOSITORY ELSE STDERR_OTHER)

\* the message of the SyntaxError new RegExp throws for the first pattern of
\* the list that does not compile
RECURSIVE OpenGroups(_, _)
OpenGroups(s, depth) ==
    IF s = <<>> THEN depth
    ELSE IF Head(s) = "\\" THEN OpenGroups(From(s, 3), depth)
    ELSE IF Head(s) = "(" THEN OpenGroups(Tail(s), depth + 1)
    ELSE IF Head(s) = ")" THEN (IF depth = 0 THEN -1 ELSE OpenGroups(Tail(s), depth - 1))
    ELSE OpenGroups(Tail(s), depth)
regExpError(patterns) ==
    LET k == CHOOSE i \in 1..Len(patterns) :
                 /\ matchesPattern(<<>>, patterns[i]).threw
                 /\ \A j \in 1..(i - 1) : ~matchesPattern(<<>>, patterns[j]).threw
        source == regexSource(patterns[k])
    IN <<"I", "n", "v", "a", "l", "i", "d", " ", "r", "e", "g", "u", "l", "a", "r", " ", "e", "x", "p", "r", "e", "s", "s", "i", "o", "n", ":", " ", "/">> \o source \o <<"/", ":", " ">>
           \o (IF OpenGroups(source, 0) > 0 THEN <<"U", "n", "t", "e", "r", "m", "i", "n", "a", "t", "e", "d", " ", "g", "r", "o", "u", "p">> ELSE <<"U", "n", "m", "a", "t", "c", "h", "e", "d", " ", "'", ")", "'">>)

\* the catch block of getStagedDiff: the error it throws for a caught error
classifyError(errorMsg) ==
    IF includesText(errorMsg, NEEDLE_NOT_A_REPOSITORY) \/ includesText(errorMsg, NEEDLE_NO_INDEX)
    THEN [kind |-> "error", text |-> NOT_A_REPOSITORY]
    ELSE IF includesText(errorMsg, NEEDLE_ENOBUFS) \/ includesText(errorMsg, NEEDLE_MAX_BUFFER)
    THEN [kind |-> "error", text |-> DIFF_TOO_LARGE]
    ELSE [kind |-> "error", text |-> GIT_ERROR_PREFIX \o errorMsg]

\* output.trim().split('\n').filter(f => f)
parseNameOnly(output) == SelectSeq(splitLines(trim(output)), LAMBDA f : f # <<>>)

\* the argument as the diff command line carries it
quoteArg(arg) ==
    IF (\E i \in 1..Len(arg) : arg[i] \in WhiteSpace \cup {"'", "\"", "\\"}) /\ arg # <<"-", "-">>
    THEN <<"\"">> \o join([i \in 1..Len(arg) |->
                              IF arg[i] = "\"" THEN <<"\\", "\"">> ELSE <<arg[i]>>], <<>>)
             \o <<"\"">>
    ELSE arg

commandLine(args) == <<"g", "i", "t", " ">> \o join([i \in 1..Len(args) |-> quoteArg(args[i])], <<" ">>)

\* the outcomes of a git command: its output, or the cause of its failure
Output(text) == [ok |-> TRUE, text |-> text, cause |-> "none"]
Failure(cause) == [ok |-> FALSE, text |-> <<>>, cause |-> cause]
FailureCauses == {"notRepository", "ENOBUFS", "other"}

\* the paths git may list, among them names with a space, with a shell
\* operator and with the text of a needle of the catch block
DiffPaths == {
    <<"s", "r", "c", "/", "a", ".", "j", "s">>,
    <<"p", "a", "c", "k", "a", "g", "e", "-", "l", "o", "c", "k", ".", "j", "s", "o", "n">>,
    <<"m", "a", "x", "B", "u", "f", "f", "e", "r", ".", "j", "s">>,
    <<"a", " ", "b", ".", "j", "s">>,
    <<"a", ";", "b", ".", "j", "s">>}
ListOutputs ==
    {Output(join(l, <<"\n">>) \o (IF l = <<>> THEN <<>> ELSE <<"\n">>)) :
        l \in {m \in SeqsUpTo(DiffPaths, MaxStaged) : NoRepeat(m)}}
DiffOutputs == {Output(<<>>), Output(<<" ", "\n">>), Output(<<"d", "i", "f", "f", " ", "-", "-", "g", "i", "t", " ", "a", "/", "x", " ", "b", "/", "x", "\n", "+", "y", "\n">>)}

InitDiff ==
    /\ pc = "verify"
    /\ NormIdle /\ MatchIdle /\ DiffIdle /\ GenIdle /\ LaterIdle
    /\ excludeFiles \in {DEFAULT_EXCLUDES, Append(DEFAULT_EXCLUDES, <<"*", "(">>)}
    /\ stagedFiles = <<>> /\ excludedFiles = <<>> /\ filesToInclude = <<>>
    /\ options = [cmd |-> "generate", arg |-> <<>>] /\ configSet = FALSE

\* if (!isGitRepository()) throw ...
IsGitRepository(inside) ==
    /\ pc = "verify"
    /\ steps' = Append(steps, "isGitRepository")
    /\ IF inside
       THEN pc' = "root" /\ result' = result
       ELSE pc' = "threw" /\ result' = [kind |-> "error", text |-> NOT_A_REPOSITORY]
    /\ UNCHANGED <<diffArgs, diffCommand, caught, normVars, matchVars, exclVars, genVars, laterVars>>

\* const gitRoot = getGitRoot()
GetGitRoot ==
    /\ pc = "root"
    /\ steps' = Append(steps, "getGitRoot")
    /\ pc' = "list"
    /\ UNCHANGED <<diffArgs, diffCommand, result, caught, normVars, matchVars, exclVars, genVars, laterVars>>

\* const stagedFiles = execSync('git diff --cached --name-only', ...)
ListStagedFiles(out) ==
    /\ pc = "list"
    /\ steps' = Append(steps, "listStaged")
    /\ IF out.ok
       THEN /\ stagedFiles' = parseNameOnly(out.text)
            /\ IF stagedFiles' = <<>>
               THEN pc' = "returned" /\ result' = [kind |-> "null", text |-> <<>>]
               ELSE pc' = "resolve" /\ result' = result
            /\ caught' = caught
       ELSE /\ stagedFiles' = stagedFiles
            /\ pc' = "threw"
            /\ caught' = [cause |-> out.cause, message |-> execSyncError(LIST_COMMAND, out.cause)]
            /\ result' = classifyError(caught'.message)
    /\ UNCHANGED <<diffArgs, diffCommand, excludeFiles, excludedFiles, filesToInclude,
                   options, configSet, normVars, matchVars, genVars, laterVars>>

\* BuildDiffArgs without the return of null where every staged file is excluded
BuildDiffArgs_NoEmptyCheck ==
    /\ pc = "resolve"
    /\ steps' = Append(steps, "resolveExclusions")
    /\ LET ex == buildExcludePatterns(stagedFiles, excludeFiles)
           inc == filesToIncludeOf(stagedFiles, excludeFiles)
       IN /\ ~ex.threw /\ ~inc.threw
          /\ filesToInclude' = IF ex.value = <<>> THEN filesToInclude ELSE inc.value
          /\ diffArgs' = IF ex.value = <<>> THEN DIFF_ARGS ELSE DIFF_ARGS \o inc.value
          /\ pc' = "request"
    /\ UNCHANGED <<diffCommand, result, caught, excludeFiles, stagedFiles, excludedFiles,
                   options, configSet, normVars, matchVars, genVars, laterVars>>

\* from buildExcludePatterns to the argument list of the diff command; an
\* exception of the matcher is caught by the catch block like any other
BuildDiffArgs ==
    /\ pc = "resolve"
    /\ steps' = Append(steps, "resolveExclusions")
    /\ LET ex == buildExcludePatterns(stagedFiles, excludeFiles)
           inc == filesToIncludeOf(stagedFiles, excludeFiles)
       IN \/ /\ ex.threw \/ inc.threw
             /\ pc' = "threw"
             /\ caught' = [cause |-> "regExp",
                           message |-> regExpError(excludeFiles \o FIXED_EXCLUDE_PATTERNS)]
             /\ result' = classifyError(caught'.message)
             /\ UNCHANGED <<diffArgs, filesToInclude>>
          \/ /\ ~ex.threw /\ ex.value = <<>>
             /\ diffArgs' = DIFF_ARGS
             /\ pc' = "request"
             /\ UNCHANGED <<result, caught, filesToInclude>>
          \/ /\ ~ex.threw /\ ex.value # <<>> /\ ~inc.threw /\ inc.value = <<>>
             /\ filesToInclude' = inc.value
             /\ pc' = "returned" /\ result' = [kind |-> "null", text |-> <<>>]
             /\ UNCHANGED <<diffArgs, caught>>
          \/ /\ ~ex.threw /\ ex.value # <<>> /\ ~inc.threw /\ inc.value # <<>>
             /\ filesToInclude' = inc.value
             /\ diffArgs' = DIFF_ARGS \o inc.value
             /\ pc' = "request"
             /\ UNCHANGED <<result, caught>>
    /\ UNCHANGED <<diffCommand, excludeFiles, stagedFiles, excludedFiles,
                   options, configSet, normVars, matchVars, genVars, laterVars>>

\* const diff = execSync('git ' + diffArgs.map(...).join(' '), ...)
ExecDiff(out) ==
    /\ pc = "request"
    /\ steps' = Append(steps, "requestDiff")
    /\ diffCommand' = commandLine(diffArgs)
    /\ IF out.ok
       THEN IF trim(out.text) = <<>>
            THEN pc' = "returned" /\ result' = [kind |-> "null", text |-> <<>>]
            ELSE pc' = "returned" /\ result' = [kind |-> "diff", text |-> out.text]
       ELSE /\ pc' = "threw"
            /\ caught' = [cause |-> out.cause, message |-> execSyncError(diffCommand', out.cause)]
            /\ result' = classifyError(caught'.message)
    /\ out.ok => caught' = caught
    /\ UNCHANGED <<diffArgs, normVars, matchVars, exclVars, genVars, laterVars>>

NextDiff ==
    \/ \E inside \in BOOLEAN : IsGitRepository(inside)
    \/ GetGitRoot
    \/ \E out \in ListOutputs \cup {Failure(c) : c \in FailureCauses} : ListStagedFiles(out)
    \/ BuildDiffArgs
    \/ \E out \in DiffOutputs \cup {Failure(c) : c \in FailureCauses} : ExecDiff(out)

SpecDiff == InitDiff /\ [][NextDiff]_vars

(***************************************************************************)
(* The port: --set-port and changePortInteractive                          *)
(***************************************************************************)
MaxPortLen == 2
PORT_MIN == 1
PORT_MAX == 65535

NaN == [nan |-> TRUE, n |-> 0]
Int32(n) == [nan |-> FALSE, n |-> n]

HexDigits == <<"0", "1", "2", "3", "4", "5", "6", "7", "8", "9",
               "a", "b", "c", "d", "e", "f">>
digitValue(c) ==
    LET l == AsciiLower(c)
    IN IF \E i \in 1..Len(HexDigits) : HexDigits[i] = l
       THEN (CHOOSE i \in 1..Len(HexDigits) : HexDigits[i] = l) - 1
       ELSE 99

\* the longest prefix of s made of digits of the radix
RECURSIVE digitRun(_, _)
digitRun(s, radix) ==
    IF s # <<>> /\ digitValue(Head(s)) < radix
    THEN <<Head(s)>> \o digitRun(Tail(s), radix)
    ELSE <<>>

RECURSIVE valueOf(_, _)
valueOf(ds, radix) ==
    IF ds = <<>> THEN 0
    ELSE valueOf(SubSeq(ds, 1, Len(ds) - 1), radix) * radix + digitValue(ds[Len(ds)])

\* parseInt(string) with no radix: leading white space is skipped, a sign
\* is read, '0x' or '0X' selects radix 16, the longest run of digits is
\* the number and what follows it is ignored; NaN when there is no digit
parseInt(string) ==
    LET s0 == From(string, LeadingWs(string) + 1)
        signed == s0 # <<>> /\ Head(s0) \in {"+", "-"}
        s1 == IF signed THEN Tail(s0) ELSE s0
        hex == Len(s1) >= 2 /\ s1[1] = "0" /\ s1[2] \in {"x", "X"}
        radix == IF hex THEN 16 ELSE 10
        ds == digitRun(IF hex THEN Tail(Tail(s1)) ELSE s1, radix)
    IN IF ds = <<>> THEN NaN
       ELSE Int32(IF signed /\ Head(s0) = "-" THEN 0 - valueOf(ds, radix)
                  ELSE valueOf(ds, radix))

\* isNaN(port) || port < 1 || port > 65535
invalidPort(port) == port.nan \/ port.n < PORT_MIN \/ port.n > PORT_MAX

PortAlphabet == {"0", "8", "-", " ", "x", "a", "."}
PortTexts ==
    SeqsUpTo(PortAlphabet, MaxPortLen)
        \cup {<<"6", "5", "5", "3", "5">>,
              <<"6", "5", "5", "3", "6">>,
              <<"1", "1", "4", "3", "4">>,
              <<"8", "0", "a", "b", "c">>,
              <<"0", "x", "1", "F">>,
              <<"1", "2", ".", "5">>,
              <<"1", "e", "3">>}

InitPort ==
    /\ pc = "cli"
    /\ CliIdle
    /\ NormIdle /\ MatchIdle /\ ExclIdle /\ DiffIdle /\ GenIdle
    /\ TruncIdle /\ FetchIdle /\ TmpIdle

\* mkcommit --set-port <port>: a new invocation, which exits; an empty
\* argument is falsy, and the action goes on to generateCommit
SetPort(text) ==
    /\ pc \in {"cli", "exited"}
    /\ portArg' = text
    /\ IF text = <<>>
       THEN /\ pc' = "generate"
            /\ exitCode' = "none"
            /\ ollamaPort' = ollamaPort
       ELSE /\ pc' = "exited"
            /\ IF invalidPort(parseInt(text))
               THEN exitCode' = 1 /\ ollamaPort' = ollamaPort
               ELSE exitCode' = 0 /\ ollamaPort' = parseInt(text).n
    /\ UNCHANGED <<normVars, matchVars, exclVars, diffVars, genVars, truncVars, fetchVars, tmpVars>>

\* the menu of generateCommit is reached
Menu ==
    /\ pc = "generate"
    /\ pc' = "menu"
    /\ UNCHANGED <<normVars, matchVars, exclVars, diffVars, genVars, truncVars, fetchVars, tmpVars, cliVars>>

\* changePortInteractive: the prompt only returns an answer that validate
\* accepted
ChangePortInteractive(text) ==
    /\ pc = "menu"
    /\ ~invalidPort(parseInt(text))
    /\ portArg' = text
    /\ ollamaPort' = parseInt(text).n
    /\ UNCHANGED <<pc, exitCode>>
    /\ UNCHANGED <<normVars, matchVars, exclVars, diffVars, genVars, truncVars, fetchVars, tmpVars>>

\* the invocation ends
Exit ==
    /\ pc = "menu"
    /\ pc' = "exited"
    /\ exitCode' = 0
    /\ UNCHANGED <<ollamaPort, portArg>>
    /\ UNCHANGED <<normVars, matchVars, exclVars, diffVars, genVars, truncVars, fetchVars, tmpVars>>

NextPort ==
    \/ \E text \in PortTexts : SetPort(text)
    \/ Menu
    \/ \E text \in PortTexts : ChangePortInteractive(text)
    \/ Exit

SpecPort == InitPort /\ [][NextPort]_vars

(***************************************************************************)
(* generateCommit.  The results of the git queries, of the model request   *)
(* and of the prompts are inputs of the steps that use them.               *)
(***************************************************************************)
MaxRounds == 2

\* line.split('\t')
RECURSIVE splitTabs(_)
splitTabs(s) ==
    IF ~includes(s, "\t") THEN <<s>>
    ELSE LET i == CHOOSE k \in 1..Len(s) : s[k] = "\t" /\ \A m \in 1..(k - 1) : s[m] # "\t"
         IN <<SubSeq(s, 1, i - 1)>> \o splitTabs(From(s, i + 1))

\* getStagedFilesWithStatus: the entries of the output of
\* git diff --cached --name-status
parseNameStatus(output) ==
    LET lines == SelectSeq(splitLines(trim(output)), LAMBDA f : f # <<>>)
        entry(line) ==
            LET parts == splitTabs(line)
            IN [statusCode |-> IF Head(parts) = <<>> THEN "undefined" ELSE Head(parts)[1],
                file |-> join(Tail(parts), <<"\t">>)]
    IN [i \in 1..Len(lines) |-> entry(lines[i])]

\* filesWithStatus.filter(f => !excludedFiles.includes(f.file))
analyzedFilesOf(withStatus, excluded) ==
    SelectSeq(withStatus, LAMBDA f : f.file \notin Range(excluded))

GenPaths == {
    <<"s", "r", "c", "/", "a", ".", "j", "s">>,
    <<"p", "a", "c", "k", "a", "g", "e", "-", "l", "o", "c", "k", ".", "j", "s", "o", "n">>}
GenStagedLists == {l \in SeqsUpTo(GenPaths, MaxStaged) : NoRepeat(l)}

\* a line of git diff --cached --name-status for a staged path: the status,
\* a tab and the path; for a rename or a copy the status carries a score
\* and the line names the source path before the staged one
StatusCodes == {"A", "M", "D", "R", "C"}
statusLine(code, path) ==
    IF code \in {"R", "C"}
    THEN ((<<code, "1", "0", "0", "\t">> \o <<"o", "l", "d", ".", "j", "s">>) \o <<"\t">>) \o path
    ELSE <<code, "\t">> \o path
nameStatus(staged, codes) ==
    join([i \in 1..Len(staged) |-> statusLine(codes[i], staged[i]) \o <<"\n">>], <<>>)

DIFF_TEXT == <<"d", "i", "f", "f", " ", "-", "-", "g", "i", "t", " ", "a", "/", "x", " ", "b", "/", "x", "\n", "+", "y", "\n">>
STAT_TEXT == <<" ", "x", " ", "|", " ", "1", " ", "+">>
STATS_UNAVAILABLE == <<"(", "s", "t", "a", "t", "s", " ", "u", "n", "a", "v", "a", "i", "l", "a", "b", "l", "e", ")">>
ModelMessages == {<<"f", "i", "x", ":", " ", "x">>}
EditedMessages == {<<>>, <<" ", "\n">>, <<" ", "f", "e", "a", "t", ":", " ", "y", "\n">>}
Choices == {"accept", "regenerate", "edit", "change-model", "change-port", "cancel"}
InstalledModels == {"llama3.2", "mistral"}
GenPortTexts == {<<"8", "0", "8", "0">>}
DiffResults ==
    {[kind |-> "null", text |-> <<>>], [kind |-> "diff", text |-> DIFF_TEXT],
     [kind |-> "error", text |-> NOT_A_REPOSITORY],
     [kind |-> "error", text |-> DIFF_TOO_LARGE],
     [kind |-> "error", text |-> GIT_ERROR_PREFIX \o STDERR_OTHER]}

\* what generateCommitMessage(diff, analyzedFiles, diffStats) makes a
\* request of: its arguments, and config.get('ollamaModel') and
\* config.get('ollamaPort') read at the call
requestOf_DefaultPort(diff, files, stats, model, port) ==
    [diff |-> diff, files |-> files, stats |-> stats, model |-> model, port |-> DEFAULT_PORT]
requestOf(diff, files, stats, model, port) ==
    [diff |-> diff, files |-> files, stats |-> stats, model |-> model, port |-> port]

InitGen ==
    /\ pc = "generateCommit"
    /\ NormIdle /\ MatchIdle /\ DiffIdle /\ GenIdle /\ LaterIdle
    /\ excludeFiles \in {DEFAULT_EXCLUDES, Append(DEFAULT_EXCLUDES, <<"*", "(">>)}
    /\ stagedFiles = <<>> /\ excludedFiles = <<>> /\ filesToInclude = <<>>
    /\ options = [cmd |-> "generate", arg |-> <<>>] /\ configSet = FALSE

\* const stagedFiles = getStagedFiles(); a failing query gives []
Gen_getStagedFiles(listed) ==
    /\ pc = "generateCommit"
    /\ stagedFiles' = listed
    /\ gitQueries' = Append(gitQueries, "getStagedFiles")
    /\ pc' = "genStaged"
    /\ UNCHANGED <<excludeFiles, excludedFiles, filesToInclude, options, configSet>>
    /\ UNCHANGED <<filesWithStatus, analyzedFiles, requests, commitMessage, action, commitCalls,
                   report, diffStats, ollamaModel, requestLog, displayed, commitOk>>
    /\ UNCHANGED <<normVars, matchVars, diffVars, laterVars>>

\* const excludedFiles = getExcludedStagedFiles(stagedFiles); what the
\* matcher throws is caught by the action, which exits with code 1
Gen_getExcludedStagedFiles ==
    /\ pc = "genStaged"
    /\ LET r == getExcludedStagedFiles(stagedFiles, excludeFiles)
       IN IF r.threw
          THEN excludedFiles' = excludedFiles /\ pc' = "exit1" /\ exitCode' = 1
          ELSE excludedFiles' = r.value /\ pc' = "genExcluded" /\ exitCode' = exitCode
    /\ UNCHANGED <<excludeFiles, stagedFiles, filesToInclude, options, configSet>>
    /\ UNCHANGED <<normVars, matchVars, diffVars, genVars, quietVars, ollamaPort, portArg>>

\* const diff = getStagedDiff(): the text of the diff when there is a path
\* to analyze and git prints one, null, or an error, which the action
\* catches to exit with code 1; if (!diff) one of the two reports and
\* process.exit(0)
Gen_getStagedDiff(res) ==
    /\ pc = "genExcluded"
    /\ res.kind = "diff" =>
          \E i \in 1..Len(stagedFiles) : stagedFiles[i] \notin Range(excludedFiles)
    /\ result' = res
    /\ gitQueries' = Append(gitQueries, "getStagedDiff")
    /\ pc' = CASE res.kind = "error" -> "exit1"
               [] res.kind = "null" -> "exit0"
               [] OTHER -> "genStatus"
    /\ exitCode' = CASE res.kind = "error" -> 1
                     [] res.kind = "null" -> 0
                     [] OTHER -> exitCode
    /\ report' = IF res.kind = "null"
                 THEN IF Len(excludedFiles) > 0 THEN "onlyExcluded" ELSE "noChanges"
                 ELSE report
    /\ UNCHANGED <<steps, diffArgs, diffCommand, caught>>
    /\ UNCHANGED <<filesWithStatus, analyzedFiles, requests, commitMessage, action, commitCalls,
                   diffStats, ollamaModel, requestLog, displayed, commitOk>>
    /\ UNCHANGED <<normVars, matchVars, exclVars, quietVars, ollamaPort, portArg>>

\* const filesWithStatus = getStagedFilesWithStatus(); a failing query gives
\* []; const diffStats = getDiffStats(); analyzedFiles is what is left of
\* filesWithStatus without the excluded files
Gen_analyzedFiles(out, stats) ==
    /\ pc = "genStatus"
    /\ filesWithStatus' = IF out.ok THEN parseNameStatus(out.text) ELSE <<>>
    /\ diffStats' = stats
    /\ analyzedFiles' = analyzedFilesOf(filesWithStatus', excludedFiles)
    /\ gitQueries' = (gitQueries \o <<"getStagedFilesWithStatus", "getDiffStats">>)
    /\ pc' = "loop"
    /\ UNCHANGED <<requests, commitMessage, action, commitCalls,
                   report, ollamaModel, requestLog, displayed, commitOk>>
    /\ UNCHANGED <<normVars, matchVars, exclVars, diffVars, laterVars>>

\* commitMessage = await generateCommitMessage(diff, analyzedFiles, diffStats):
\* one request to the endpoint; a failure ends the run with exit code 1;
\* then displayCommitMessage(commitMessage)
Gen_generateCommitMessage(out) ==
    /\ pc = "loop"
    /\ requests < MaxRounds
    /\ requests' = requests + 1
    /\ requestLog' = Append(requestLog,
                            requestOf(result.text, analyzedFiles, diffStats,
                                      ollamaModel, ollamaPort))
    /\ IF out.ok
       THEN /\ commitMessage' = out.text /\ displayed' = out.text
            /\ pc' = "menu" /\ exitCode' = exitCode
       ELSE /\ commitMessage' = commitMessage /\ displayed' = displayed
            /\ pc' = "exit1" /\ exitCode' = 1
    /\ UNCHANGED <<filesWithStatus, analyzedFiles, action, commitCalls,
                   report, diffStats, gitQueries, ollamaModel, commitOk>>
    /\ UNCHANGED <<normVars, matchVars, exclVars, diffVars, quietVars, ollamaPort, portArg>>

\* the argument of executeCommit: commitMessage in case 'accept',
\* editedMessage.trim() in case 'edit'
committedText_Untrimmed(choice, generated, edited) ==
    IF choice = "accept" THEN generated ELSE edited
committedText(choice, generated, edited) ==
    IF choice = "accept" THEN generated ELSE trim(edited)

\* Gen_choose with a declined edit ending the loop
Gen_choose_DeclineEnds(choice, edited, confirm, committed) ==
    /\ pc = "menu"
    /\ action' = [choice |-> choice,
                  edited |-> IF choice = "edit" THEN edited ELSE <<>>,
                  confirm |-> choice = "edit" /\ trim(edited) # <<>> /\ confirm]
    /\ commitCalls' = IF choice = "accept" THEN Append(commitCalls, commitMessage)
                      ELSE commitCalls
    /\ commitOk' = IF choice = "accept" THEN (IF committed THEN "true" ELSE "false")
                   ELSE commitOk
    /\ displayed' = displayed
    /\ pc' = IF choice \in {"accept", "cancel"} \/ (choice = "edit" /\ trim(edited) # <<>>)
             THEN "done" ELSE "loop"
    /\ exitCode' = IF pc' = "done" THEN 0 ELSE exitCode
    /\ UNCHANGED <<filesWithStatus, analyzedFiles, requests, commitMessage,
                   report, diffStats, gitQueries, ollamaModel, requestLog>>
    /\ UNCHANGED <<normVars, matchVars, exclVars, diffVars, quietVars, ollamaPort, portArg>>

\* the answer to the menu and the switch on it for accept, regenerate, edit
\* and cancel, with the prompts of the edit branch (the editor text and the
\* confirmation) and what executeCommit returns; when the loop ends the
\* function returns and the process ends with code 0
Gen_choose(choice, edited, confirm, committed) ==
    /\ pc = "menu"
    /\ LET commits == \/ choice = "accept"
                      \/ choice = "edit" /\ trim(edited) # <<>> /\ confirm
       IN /\ action' = [choice |-> choice,
                        edited |-> IF choice = "edit" THEN edited ELSE <<>>,
                        confirm |-> choice = "edit" /\ trim(edited) # <<>> /\ confirm]
          /\ commitCalls' =
                IF commits THEN Append(commitCalls, committedText(choice, commitMessage, edited))
                ELSE commitCalls
          /\ commitOk' = IF commits THEN (IF committed THEN "true" ELSE "false") ELSE commitOk
          /\ displayed' = IF choice = "edit" /\ trim(edited) # <<>> THEN trim(edited)
                          ELSE displayed
          /\ pc' = IF commits \/ choice = "cancel" THEN "done" ELSE "loop"
          /\ exitCode' = IF commits \/ choice = "cancel" THEN 0 ELSE exitCode
    /\ UNCHANGED <<filesWithStatus, analyzedFiles, requests, commitMessage,
                   report, diffStats, gitQueries, ollamaModel, requestLog>>
    /\ UNCHANGED <<normVars, matchVars, exclVars, diffVars, quietVars, ollamaPort, portArg>>

\* case 'change-model': changeModelInteractive sets the selected model, or
\* reports that the list of models could not be had and sets nothing
Gen_changeModel(listed, selectedModel) ==
    /\ pc = "menu"
    /\ action' = [choice |-> "change-model", edited |-> <<>>, confirm |-> FALSE]
    /\ ollamaModel' = IF listed THEN selectedModel ELSE ollamaModel
    /\ pc' = "loop"
    /\ UNCHANGED <<filesWithStatus, analyzedFiles, requests, commitMessage, commitCalls,
                   report, diffStats, gitQueries, requestLog, displayed, commitOk>>
    /\ UNCHANGED <<normVars, matchVars, exclVars, diffVars, laterVars>>

\* case 'change-port': changePortInteractive sets the port the prompt
\* accepted
Gen_changePort(text) ==
    /\ pc = "menu"
    /\ ~invalidPort(parseInt(text))
    /\ action' = [choice |-> "change-port", edited |-> <<>>, confirm |-> FALSE]
    /\ portArg' = text
    /\ ollamaPort' = parseInt(text).n
    /\ pc' = "loop"
    /\ UNCHANGED <<filesWithStatus, analyzedFiles, requests, commitMessage, commitCalls,
                   report, diffStats, gitQueries, ollamaModel, requestLog, displayed, commitOk>>
    /\ UNCHANGED <<normVars, matchVars, exclVars, diffVars, quietVars, exitCode>>

NextGen ==
    \/ \E listed \in GenStagedLists : Gen_getStagedFiles(listed)
    \/ Gen_getExcludedStagedFiles
    \/ \E res \in DiffResults : Gen_getStagedDiff(res)
    \/ \E codes \in [1..Len(stagedFiles) -> StatusCodes],
          stats \in {STAT_TEXT, STATS_UNAVAILABLE} :
          Gen_analyzedFiles(Output(nameStatus(stagedFiles, codes)), stats)
    \/ \E stats \in {STAT_TEXT, STATS_UNAVAILABLE} :
          Gen_analyzedFiles(Failure("other"), stats)
    \/ \E out \in {Output(t) : t \in ModelMessages} \cup {Failure("other")} :
          Gen_generateCommitMessage(out)
    \/ \E choice \in Choices \ {"change-model", "change-port"},
          edited \in EditedMessages, confirm \in BOOLEAN, committed \in BOOLEAN :
          Gen_choose(choice, edited, confirm, committed)
    \/ \E listed \in BOOLEAN, selectedModel \in InstalledModels :
          Gen_changeModel(listed, selectedModel)
    \/ \E text \in GenPortTexts : Gen_changePort(text)

SpecGen == InitGen /\ [][NextGen]_vars

(***************************************************************************)
(* truncateDiffSmart.  A text is held as the sequence of its lines, a line *)
(* as its kind and its length: the kind is what the startsWith tests of    *)
(* the function tell apart, the length is what the text lengths are made   *)
(* of.                                                                     *)
(***************************************************************************)
MAX_DIFF_LENGTH == 6000
MaxDiffFiles == 2

Line(kind, len) == [kind |-> kind, len |-> len]

\* the length of lines.join('\n')
RECURSIVE sumLen(_)
sumLen(lines) ==
    IF lines = <<>> THEN 0
    ELSE IF Len(lines) = 1 THEN lines[1].len
    ELSE LET half == Len(lines) \div 2
         IN sumLen(SubSeq(lines, 1, half)) + sumLen(SubSeq(lines, half + 1, Len(lines)))
joinedLength(lines) == IF lines = <<>> THEN 0 ELSE sumLen(lines) + Len(lines) - 1

\* the number of decimal digits of n
RECURSIVE digits(_)
digits(n) == IF n < 10 THEN 1 ELSE 1 + digits(n \div 10)

\* `... (${n} more lines)`
moreLines(n) == Line("more", 17 + digits(n))
\* '\n[... diff truncated for length ...]'
TRUNCATION_MARKER == Line("marker", 36)

max(a, b) == IF a > b THEN a ELSE b

\* the first loop: the chunks of the diff, one for each 'diff --git' line,
\* each with that line as its header and, of the lines up to the next
\* header, those that start with '+++', '---', '@@', '+' or '-'
headerLines(lines) == {i \in 1..Len(lines) : lines[i].kind = "diff --git"}
headerAt(lines, k) ==
    CHOOSE i \in headerLines(lines) :
        Cardinality({j \in headerLines(lines) : j <= i}) = k
isImportant(line) == line.kind \in {"context", "change"}
chunksOf(lines) ==
    LET count == Cardinality(headerLines(lines))
    IN [k \in 1..count |->
           LET first == headerAt(lines, k)
               last == IF k < count THEN headerAt(lines, k + 1) - 1 ELSE Len(lines)
           IN [header |-> <<lines[first]>>,
               lines |-> SelectSeq(SubSeq(lines, first + 1, last), isImportant)]]

\* the second loop, from the k-th chunk on
RECURSIVE buildResult(_, _, _, _, _)
buildResult(chunks, k, res, totalLength, maxLinesPerFile) ==
    IF k > Len(chunks) THEN res
    ELSE LET chunk == chunks[k]
             kept == max(maxLinesPerFile, 10)
             importantLines == SubSeq(chunk.lines, 1,
                                      IF Len(chunk.lines) < kept THEN Len(chunk.lines) ELSE kept)
             withLines == (res \o chunk.header) \o importantLines
             withMore == IF Len(chunk.lines) > Len(importantLines)
                         THEN Append(withLines, moreLines(Len(chunk.lines) - Len(importantLines)))
                         ELSE withLines
             total == totalLength + joinedLength(withMore)
         IN IF total > MAX_DIFF_LENGTH
            THEN Append(withMore, TRUNCATION_MARKER)
            ELSE buildResult(chunks, k + 1, withMore, total, maxLinesPerFile)

truncateDiffSmart(lines) ==
    IF joinedLength(lines) <= MAX_DIFF_LENGTH THEN lines
    ELSE LET chunks == chunksOf(lines)
             maxLinesPerFile ==
                 (MAX_DIFF_LENGTH \div (IF Len(chunks) = 0 THEN 1 ELSE Len(chunks))) \div 50
         IN buildResult(chunks, 1, <<>>, 0, maxLinesPerFile)

\* the diffs of the model: up to MaxDiffFiles files, each a header, two
\* context lines and a run of changed lines of one length, the run empty,
\* short or longer than any number of lines the function keeps
ChangeCounts == {0, 5, 200}
ChangeLengths == {10, 40, 100, 7000}
FileBlock(n, len) ==
    <<Line("diff --git", 30), Line("other", 40), Line("context", 12), Line("context", 12)>>
        \o [i \in 1..n |-> Line("change", len)]
RECURSIVE concat(_)
concat(blocks) == IF blocks = <<>> THEN <<>> ELSE Head(blocks) \o concat(Tail(blocks))
DiffInputs ==
    {concat(b) : b \in SeqsUpTo({FileBlock(n, len) : n \in ChangeCounts, len \in ChangeLengths},
                                MaxDiffFiles)}

InitTrunc ==
    /\ pc = "truncate"
    /\ diffLines \in DiffInputs
    /\ truncated = <<>>
    /\ NormIdle /\ MatchIdle /\ ExclIdle /\ DiffIdle /\ GenIdle /\ FetchIdle /\ TmpIdle /\ CliIdle

TruncateDiffSmart ==
    /\ pc = "truncate"
    /\ truncated' = truncateDiffSmart(diffLines)
    /\ pc' = "truncated"
    /\ UNCHANGED <<diffLines, normVars, matchVars, exclVars, diffVars, genVars, fetchVars, tmpVars, cliVars>>

NextTrunc == TruncateDiffSmart

SpecTrunc == InitTrunc /\ [][NextTrunc]_vars

(***************************************************************************)
(* fetchWithTimeout and the request of generateCommitMessage.  Time is     *)
(* counted in seconds, the unit of the timeout message.                    *)
(***************************************************************************)
FETCH_TIMEOUT_MS == 120000

DigitChars == <<"0", "1", "2", "3", "4", "5", "6", "7", "8", "9">>
\* `${n}` for a natural number n
RECURSIVE decimal(_)
decimal(n) ==
    IF n < 10 THEN <<DigitChars[n + 1]>>
    ELSE Append(decimal(n \div 10), DigitChars[(n % 10) + 1])

Error(name, text) == [name |-> name, message |-> text]

\* the error fetch rejects with once controller.abort() was called
ABORT_ERROR == Error("AbortError", <<"T", "h", "i", "s", " ", "o", "p", "e", "r", "a", "t", "i", "o", "n", " ", "w", "a", "s", " ", "a", "b", "o", "r", "t", "e", "d">>)

\* `Request timeout after ${timeoutMs / 1000}s. The model may be too slow
\* or Ollama is unresponsive.`
timeoutError(timeoutMs) ==
    Error("Error", (<<"R", "e", "q", "u", "e", "s", "t", " ", "t", "i", "m", "e", "o", "u", "t", " ", "a", "f", "t", "e", "r", " ">> \o decimal(timeoutMs \div 1000)) \o <<"s", ".", " ", "T", "h", "e", " ", "m", "o", "d", "e", "l", " ", "m", "a", "y", " ", "b", "e", " ", "t", "o", "o", " ", "s", "l", "o", "w", " ", "o", "r", " ", "O", "l", "l", "a", "m", "a", " ", "i", "s", " ", "u", "n", "r", "e", "s", "p", "o", "n", "s", "i", "v", "e", ".">>)

\* the catch block: what fetchWithTimeout throws for a rejection of fetch
errorThrown_Rethrow(error, timeoutMs) == error
errorThrown(error, timeoutMs) ==
    IF error.name = "AbortError" THEN timeoutError(timeoutMs) ELSE error

\* response.ok
ok(res) == res.status >= 200 /\ res.status <= 299

\* `Ollama error (${response.status}): ${errorText}`
ollamaError(res) ==
    Error("Error", ((<<"O", "l", "l", "a", "m", "a", " ", "e", "r", "r", "o", "r", " ", "(">> \o decimal(res.status)) \o <<")", ":", " ">>) \o res.body)

\* what the endpoint and the network can do to one request
Statuses == {200, 204, 404, 500}
Bodies == {<<>>, <<"{", "\"", "e", "r", "r", "o", "r", "\"", ":", "\"", "m", "o", "d", "e", "l", " ", "n", "o", "t", " ", "f", "o", "u", "n", "d", "\"", "}">>, <<"I", "n", "t", "e", "r", "n", "a", "l", " ", "S", "e", "r", "v", "e", "r", " ", "E", "r", "r", "o", "r">>}
NetworkErrors ==
    {Error("TypeError", <<"f", "e", "t", "c", "h", " ", "f", "a", "i", "l", "e", "d">>), Error("TypeError", <<"t", "i", "m", "e", "o", "u", "t">>)}

InitFetch ==
    /\ pc = "generateCommitMessage"
    /\ FetchIdle
    /\ NormIdle /\ MatchIdle /\ ExclIdle /\ DiffIdle /\ GenIdle /\ TruncIdle /\ TmpIdle /\ CliIdle

\* setTimeout(() => controller.abort(), timeoutMs) and the call of fetch
FetchWithTimeout ==
    /\ pc = "generateCommitMessage"
    /\ timer' = "armed"
    /\ pc' = "fetch"
    /\ UNCHANGED <<clock, response, rejection, thrown>>
    /\ UNCHANGED <<normVars, matchVars, exclVars, diffVars, genVars, truncVars, tmpVars, cliVars>>

\* a second passes while the request is pending; the timer is due after
\* timeoutMs and no second passes beyond that before it runs
Tick ==
    /\ pc = "fetch" /\ timer = "armed"
    /\ (clock + 1) * 1000 <= FETCH_TIMEOUT_MS
    /\ clock' = clock + 1
    /\ UNCHANGED <<pc, timer, response, rejection, thrown>>
    /\ UNCHANGED <<normVars, matchVars, exclVars, diffVars, genVars, truncVars, tmpVars, cliVars>>

\* fetch resolves: return response, then finally clearTimeout(timeout)
FetchResolves(status, body) ==
    /\ pc = "fetch" /\ timer = "armed"
    /\ response' = [status |-> status, body |-> body]
    /\ timer' = "cleared"
    /\ pc' = "response"
    /\ UNCHANGED <<clock, rejection, thrown>>
    /\ UNCHANGED <<normVars, matchVars, exclVars, diffVars, genVars, truncVars, tmpVars, cliVars>>

\* fetch rejects for a reason of its own: the catch block rethrows, finally
\* clearTimeout(timeout), and generateCommitMessage does not catch
FetchRejects(error) ==
    /\ pc = "fetch" /\ timer = "armed"
    /\ rejection' = error
    /\ thrown' = errorThrown(error, FETCH_TIMEOUT_MS)
    /\ timer' = "cleared"
    /\ pc' = "threw"
    /\ UNCHANGED <<clock, response>>
    /\ UNCHANGED <<normVars, matchVars, exclVars, diffVars, genVars, truncVars, tmpVars, cliVars>>

\* the timer callback: controller.abort()
TimerFires ==
    /\ pc = "fetch" /\ timer = "armed"
    /\ clock * 1000 >= FETCH_TIMEOUT_MS
    /\ timer' = "fired"
    /\ UNCHANGED <<pc, clock, response, rejection, thrown>>
    /\ UNCHANGED <<normVars, matchVars, exclVars, diffVars, genVars, truncVars, tmpVars, cliVars>>

\* the aborted fetch rejects with AbortError: the catch block throws the
\* timeout error, finally clearTimeout(timeout)
FetchAborts ==
    /\ pc = "fetch" /\ timer = "fired"
    /\ rejection' = ABORT_ERROR
    /\ thrown' = errorThrown(ABORT_ERROR, FETCH_TIMEOUT_MS)
    /\ timer' = "cleared"
    /\ pc' = "threw"
    /\ UNCHANGED <<clock, response>>
    /\ UNCHANGED <<normVars, matchVars, exclVars, diffVars, genVars, truncVars, tmpVars, cliVars>>

\* if (!response.ok) { errorText = await response.text(); throw ... },
\* else data = await response.json()
CheckResponse ==
    /\ pc = "response"
    /\ \/ /\ ~ok(response)
          /\ thrown' = ollamaError(response)
          /\ pc' = "threw"
       \/ /\ ok(response)
          /\ thrown' = thrown
          /\ pc' = "json"
    /\ UNCHANGED <<clock, timer, response, rejection>>
    /\ UNCHANGED <<normVars, matchVars, exclVars, diffVars, genVars, truncVars, tmpVars, cliVars>>

NextFetch ==
    \/ FetchWithTimeout
    \/ Tick
    \/ \E status \in Statuses, body \in Bodies : FetchResolves(status, body)
    \/ \E error \in NetworkErrors : FetchRejects(error)
    \/ TimerFires
    \/ FetchAborts
    \/ CheckResponse

SpecFetch == InitFetch /\ [][NextFetch]_vars

\* the event loop runs what is due: time passes, a due timer runs, a
\* settled promise is continued
SpecFetchFair ==
    /\ SpecFetch
    /\ WF_vars(Tick) /\ WF_vars(TimerFires) /\ WF_vars(FetchAborts)
    /\ WF_vars(FetchWithTimeout) /\ WF_vars(CheckResponse)

(***************************************************************************)
(* executeCommit.  Several runs of the program share os.tmpdir(); a file   *)
(* is a name and a content, and randomUUID returns a value it has not      *)
(* returned before.                                                        *)
(***************************************************************************)
MaxRuns == 2
MaxUUIDs == 3

Runs == 1..MaxRuns
UUIDs == 1..MaxUUIDs
CommitMessages == {"feat: a", "fix: b"}

\* path.join(os.tmpdir(), `mkcommit-${randomUUID()}.txt`)
tmpFileOf(uuid) == <<"mkcommit-", uuid, ".txt">>

exists(name) == \E f \in tmpdir : f.name = name
contentOf(name) == (CHOOSE f \in tmpdir : f.name = name).content
without(name) == {f \in tmpdir : f.name # name}
File(name, content) == [name |-> name, content |-> content]

NoCall == [pc |-> "idle", message |-> "", tmpFile |-> <<>>, read |-> "", value |-> "none"]

InitTmp ==
    /\ pc = "executeCommit"
    /\ tmpdir = {} /\ issued = {}
    /\ calls = [r \in Runs |-> NoCall]
    /\ NormIdle /\ MatchIdle /\ ExclIdle /\ DiffIdle /\ GenIdle /\ TruncIdle /\ FetchIdle /\ CliIdle

\* the call, and the file name it draws
ExecuteCommit(r, text, uuid) ==
    /\ calls[r].pc = "idle"
    /\ uuid \notin issued
    /\ issued' = issued \cup {uuid}
    /\ calls' = [calls EXCEPT ![r] = [NoCall EXCEPT !.pc = "write", !.message = text,
                                                   !.tmpFile = tmpFileOf(uuid)]]
    /\ UNCHANGED <<pc, tmpdir>>
    /\ UNCHANGED <<normVars, matchVars, exclVars, diffVars, genVars, truncVars, fetchVars, cliVars>>

\* fs.writeFileSync(tmpFile, message, 'utf-8'): the file is opened (and so
\* created), written and closed; a failure of the open creates nothing, a
\* failure of the write leaves the created file; either is caught by the
\* outer catch, which returns false
WriteFileSync(r, outcome) ==
    /\ calls[r].pc = "write"
    /\ \/ /\ outcome = "written"
          /\ tmpdir' = without(calls[r].tmpFile) \cup {File(calls[r].tmpFile, calls[r].message)}
          /\ calls' = [calls EXCEPT ![r].pc = "commit"]
       \/ /\ outcome = "openFailed"
          /\ tmpdir' = tmpdir
          /\ calls' = [calls EXCEPT ![r].pc = "returned", ![r].value = "false"]
       \/ /\ outcome = "writeFailed"
          /\ tmpdir' = without(calls[r].tmpFile) \cup {File(calls[r].tmpFile, "")}
          /\ calls' = [calls EXCEPT ![r].pc = "returned", ![r].value = "false"]
    /\ UNCHANGED <<pc, issued>>
    /\ UNCHANGED <<normVars, matchVars, exclVars, diffVars, genVars, truncVars, fetchVars, cliVars>>

\* execSync(`git commit -F "${tmpFile}"`): git reads the message from the
\* file of that name, and succeeds or fails
GitCommit(r, succeeds) ==
    /\ calls[r].pc = "commit"
    /\ calls' = [calls EXCEPT
                    ![r].pc = "unlink",
                    ![r].read = IF exists(calls[r].tmpFile) THEN contentOf(calls[r].tmpFile)
                                ELSE "",
                    ![r].value = IF succeeds /\ exists(calls[r].tmpFile) THEN "true" ELSE "false"]
    /\ UNCHANGED <<pc, tmpdir, issued>>
    /\ UNCHANGED <<normVars, matchVars, exclVars, diffVars, genVars, truncVars, fetchVars, cliVars>>

\* finally { try { fs.unlinkSync(tmpFile) } catch { debugLog(...) } }, then
\* the return of true, or of false from the outer catch
UnlinkSync(r, removes) ==
    /\ calls[r].pc = "unlink"
    /\ tmpdir' = IF removes THEN without(calls[r].tmpFile) ELSE tmpdir
    /\ calls' = [calls EXCEPT ![r].pc = "returned"]
    /\ UNCHANGED <<pc, issued>>
    /\ UNCHANGED <<normVars, matchVars, exclVars, diffVars, genVars, truncVars, fetchVars, cliVars>>

NextTmp ==
    \/ \E r \in Runs, text \in CommitMessages, uuid \in UUIDs : ExecuteCommit(r, text, uuid)
    \/ \E r \in Runs, outcome \in {"written", "openFailed", "writeFailed"} :
           WriteFileSync(r, outcome)
    \/ \E r \in Runs, succeeds \in BOOLEAN : GitCommit(r, succeeds)
    \/ \E r \in Runs, removes \in BOOLEAN : UnlinkSync(r, removes)

SpecTmp == InitTmp /\ [][NextTmp]_vars

(***************************************************************************)
(* Properties of the normalizer and of the formatter                       *)
(***************************************************************************)
Parsed == pc \in {"parsed", "formatted"}

\* the synonym table as the specification states it
SynonymTarget(t) ==
    CASE t = <<"f", "e", "a", "t", "u", "r", "e">> -> <<"f", "e", "a", "t">>
      [] t = <<"b", "u", "g", "f", "i", "x">> -> <<"f", "i", "x">>
      [] t = <<"b", "u", "g">> -> <<"f", "i", "x">>
      [] t = <<"d", "o", "c">> -> <<"d", "o", "c", "s">>
      [] t = <<"d", "o", "c", "u", "m", "e", "n", "t", "a", "t", "i", "o", "n">> -> <<"d", "o", "c", "s">>
      [] t = <<"t", "e", "s", "t", "s">> -> <<"t", "e", "s", "t">>
      [] t = <<"t", "e", "s", "t", "i", "n", "g">> -> <<"t", "e", "s", "t">>
      [] t = <<"p", "e", "r", "f", "o", "r", "m", "a", "n", "c", "e">> -> <<"p", "e", "r", "f">>
      [] t = <<"m", "a", "i", "n", "t", "e", "n", "a", "n", "c", "e">> -> <<"c", "h", "o", "r", "e">>
      [] t = <<"u", "p", "d", "a", "t", "e">> -> <<"c", "h", "o", "r", "e">>
      [] t = <<"w", "i", "p">> -> <<"c", "h", "o", "r", "e">>
      [] OTHER -> <<"c", "h", "o", "r", "e">>

\* the non-blank lines of a text, in order
NonBlankLines(text) ==
    LET ls == splitLines(text)
        keep == {i \in 1..Len(ls) : ~AllWhite(ls[i])}
        nth(k) == CHOOSE i \in keep : Cardinality({j \in keep : j < i}) = k - 1
    IN [k \in 1..Cardinality(keep) |-> ls[nth(k)]]

\* line = type [ "(" scope ")" ] ":" white-space subject: the type ends at a,
\* the colon is at c and the subject starts at s
TypeEndsAt(line, a) == IsCommitType(MapAsciiLower(SubSeq(line, 1, a)))
ColonAt(line, a, c) ==
    /\ line[c] = ":"
    /\ \/ c = a + 1
       \/ /\ c >= a + 4
          /\ line[a + 1] = "("
          /\ line[c - 1] = ")"
          /\ \A m \in (a + 2)..(c - 2) : line[m] # ")"
SubjectAt(line, c, s) ==
    /\ \A m \in (c + 1)..(s - 1) : line[m] \in WhiteSpace
    /\ line[s] \notin WhiteSpace \/ s = Len(line)

MatchesConventional(line) ==
    \E a \in 1..Len(line) :
        /\ TypeEndsAt(line, a)
        /\ \E c \in (a + 1)..Len(line) :
            /\ ColonAt(line, a, c)
            /\ \E s \in (c + 1)..Len(line) : SubjectAt(line, c, s)

\* the later lines that begin with a bullet marker, the marker and the white
\* space after it removed
ExpectedBullets(ls) ==
    LET keep == {i \in 2..Len(ls) : ls[i][1] \in {"-", "*"}}
        nth(k) == CHOOSE i \in keep : Cardinality({j \in keep : j < i}) = k - 1
        item(l) == From(l, 2 + LeadingWs(From(l, 2)))
    IN [k \in 1..Cardinality(keep) |-> Str(item(ls[nth(k)]))]

\* C1: for every input string parseCommitResponse returns a record whose
\* subject is a non-empty string and whose type is one of the 11 canonical
\* commit types.
C1_NormalizerTotality ==
    Parsed =>
        /\ IsString(commitData.subject) /\ commitData.subject.v # <<>>
        /\ IsString(commitData.type) /\ IsCommitType(commitData.type.v)

\* C2: for a parsed object {"type": t, "subject": s} with non-empty strings t
\* and s, the returned type is t when t is canonical, the synonym-table target
\* of the lower-cased t when that is a synonym key, and "chore" otherwise.
C2_TypeRepair ==
    Parsed =>
        \A t \in TypeInputs, s \in FewSubjects :
            rawResponse = ObjectText(TypeAndSubject(t, s)) =>
                commitData.type = Str(IF IsCommitType(t) THEN t
                                      ELSE SynonymTarget(toLowerCase(t)))

\* C3: on every path the returned subject is lower-cased, has at most 50
\* characters and does not end with a period.
C3_SubjectInvariant ==
    Parsed /\ IsString(commitData.subject) =>
        LET s == commitData.subject.v
        IN /\ toLowerCase(s) = s
           /\ Len(s) <= SUBJECT_MAX
           /\ ~endsWith(s, <<".">>)

\* the record the fallback owes a first line that matches the grammar, with
\* the subject left as captured (raw) or cleaned
ConventionalAsClaimed(cleaned) ==
    LET ls == NonBlankLines(rawResponse)
        line == ls[1]
    IN \E a \in 1..Len(line) : \E c \in (a + 1)..Len(line) : \E s \in (c + 1)..Len(line) :
        /\ TypeEndsAt(line, a) /\ ColonAt(line, a, c) /\ SubjectAt(line, c, s)
        /\ commitData.type = Str(MapAsciiLower(SubSeq(line, 1, a)))
        /\ commitData.scope = IF c = a + 1 THEN Null ELSE Str(SubSeq(line, a + 2, c - 2))
        /\ commitData.subject =
              Str(IF cleaned
                  THEN substring0(stripTrailingPeriod(toLowerCase(From(line, s))), SUBJECT_MAX)
                  ELSE From(line, s))
        /\ commitData.body = Arr(ExpectedBullets(ls))

FallbackMatches ==
    /\ Parsed /\ parsePath # "structured"
    /\ NonBlankLines(rawResponse) # <<>>
    /\ MatchesConventional(NonBlankLines(rawResponse)[1])

\* C4 as stated: when structured parsing fails and the first non-blank line
\* matches type(scope): subject, the record has the lower-cased captured type,
\* the captured scope, the captured subject and a body of exactly the later
\* lines that begin with - or *, in order, the marker stripped.
C4_FallbackAsStated ==
    FallbackMatches => parsePath = "conventional" /\ ConventionalAsClaimed(FALSE)

\* C4 as amended: the same, with the captured subject lower-cased, one
\* trailing period removed and then cut to 50 characters.
C4_FallbackExtraction ==
    FallbackMatches => parsePath = "conventional" /\ ConventionalAsClaimed(TRUE)

C4_Witness ==
    /\ pc = "parsed" /\ parsePath = "conventional"
    /\ IsString(commitData.scope)
    /\ Len(commitData.body.v) = 5
    /\ Len(NonBlankLines(rawResponse)) = 8
    /\ toLowerCase(NonBlankLines(rawResponse)[1]) # NonBlankLines(rawResponse)[1]

RECURSIVE SumLen(_)
SumLen(items) == IF items = <<>> THEN 0 ELSE Len(ToStringJS(Head(items))) + SumLen(Tail(items))

\* C6: formatCommitMessage returns type(scope): subject when a scope is
\* present and type: subject otherwise, followed, exactly when body is a
\* non-empty sequence, by one blank line and one "- item" line per body entry
\* in the original order, and nothing else.
C6_Formatter ==
    pc = "formatted" =>
        LET ty == ToStringJS(commitData.type)
            sc == ToStringJS(commitData.scope)
            su == ToStringJS(commitData.subject)
            scoped == Truthy(commitData.scope)
            colon == Len(ty) + (IF scoped THEN Len(sc) + 2 ELSE 0) + 1
            hl == colon + 1 + Len(su)
            items == IF commitData.body.t = "arr" THEN commitData.body.v ELSE <<>>
            \* where the i-th item line starts
            start(i) == hl + 3 + SumLen(SubSeq(items, 1, i - 1)) + 3 * (i - 1)
        IN /\ Len(message) >= hl
           /\ SubSeq(message, 1, Len(ty)) = ty
           /\ scoped => /\ message[Len(ty) + 1] = "("
                        /\ SubSeq(message, Len(ty) + 2, colon - 2) = sc
                        /\ message[colon - 1] = ")"
           /\ message[colon] = ":" /\ message[colon + 1] = " "
           /\ SubSeq(message, colon + 2, hl) = su
           /\ items = <<>> => Len(message) = hl
           /\ items # <<>> =>
                /\ Len(message) = hl + 1 + SumLen(items) + 3 * Len(items)
                /\ message[hl + 1] = "\n" /\ message[hl + 2] = "\n"
                /\ \A i \in 1..Len(items) :
                     /\ message[start(i)] = "-" /\ message[start(i) + 1] = " "
                     /\ SubSeq(message, start(i) + 2,
                               start(i) + 1 + Len(ToStringJS(items[i]))) = ToStringJS(items[i])
                     /\ i > 1 => message[start(i) - 1] = "\n"
           /\ rawResponse = <<"f", "i", "x", "(", "a", "u", "t", "h", ")", ":", " ", "h", "a", "n", "d", "l", "e", " ", "n", "u", "l", "l", " ", "t", "o", "k", "e", "n", "\n", "-", " ", "g", "u", "a", "r", "d", " ", "a", "g", "a", "i", "n", "s", "t", " ", "e", "m", "p", "t", "y", " ", "h", "e", "a", "d", "e", "r">> =>
                message = <<"f", "i", "x", "(", "a", "u", "t", "h", ")", ":", " ", "h", "a", "n", "d", "l", "e", " ", "n", "u", "l", "l", " ", "t", "o", "k", "e", "n", "\n", "\n", "-", " ", "g", "u", "a", "r", "d", " ", "a", "g", "a", "i", "n", "s", "t", " ", "e", "m", "p", "t", "y", " ", "h", "e", "a", "d", "e", "r">>

C6_Witness ==
    /\ pc = "formatted"
    /\ Truthy(commitData.scope)
    /\ commitData.body.t = "arr" /\ Len(commitData.body.v) = 2
    /\ Len(message) > Len(ToStringJS(commitData.subject)) + 10

(***************************************************************************)
(* Properties of the pattern matcher and of the exclusion resolver         *)
(***************************************************************************)
MatchDone == pc \in {"matchReturned", "matchThrew"}

\* a pattern in which * stands for any run of zero or more characters
\* matches the whole of s
RECURSIVE GlobMatch(_, _)
GlobMatch(p, s) ==
    IF p = <<>> THEN s = <<>>
    ELSE IF Head(p) = "*"
         THEN \E n \in 0..Len(s) : GlobMatch(Tail(p), From(s, n + 1))
         ELSE s # <<>> /\ Head(s) = Head(p) /\ GlobMatch(Tail(p), Tail(s))

\* the pattern matches the full path or a suffix of it that follows a "/"
GlobAnchored(p, path) ==
    \/ GlobMatch(p, path)
    \/ \E k \in 1..Len(path) : path[k] = "/" /\ GlobMatch(p, From(path, k + 1))

\* some configured or fixed pattern matches the path
Skipped(path) ==
    \E p \in Range(excludeFiles \o FIXED_EXCLUDE_PATTERNS) :
        matchesPattern(path, p) = Returned(TRUE)
NotSkipped(path) == ~Skipped(path)

\* C7: for every staged list and every configured list the skipped set and
\* the analyzed set exist, are disjoint and cover the staged list; a path is
\* skipped exactly when a configured or fixed pattern matches it, and the
\* analyzed paths keep their input order.
C7_ExclusionTotality ==
    /\ pc # "exit1"
    /\ pc \in {"excluded", "diffNull", "diffPaths"} =>
           excludedFiles = SelectSeq(stagedFiles, Skipped)
    /\ pc \in {"diffNull", "diffPaths"} =>
           /\ Range(excludedFiles) \cap Range(filesToInclude) = {}
           /\ Range(excludedFiles) \cup Range(filesToInclude) = Range(stagedFiles)
           /\ filesToInclude = SelectSeq(stagedFiles, NotSkipped)

\* C8: matchesPattern("dist/app.js", "dist/*") is true,
\* matchesPattern("src/dist/app.js", "dist/*") is false, and for a pattern
\* without * the result is true exactly when the path equals the pattern or
\* ends with "/" followed by the pattern.
C8_PatternCases ==
    MatchDone =>
        /\ argPattern = <<"d", "i", "s", "t", "/", "*">> =>
              /\ argFile = <<"d", "i", "s", "t", "/", "a", "p", "p", ".", "j", "s">>
                    => matched = Returned(TRUE)
              /\ argFile = <<"s", "r", "c", "/", "d", "i", "s", "t", "/", "a", "p", "p", ".", "j", "s">>
                    => matched = Returned(FALSE)
        /\ (\A i \in 1..Len(argPattern) : argPattern[i] # "*") =>
              matched = Returned(
                  \/ argFile = argPattern
                  \/ \E k \in 1..Len(argFile) :
                        argFile[k] = "/" /\ From(argFile, k + 1) = argPattern
                        /\ Len(argFile) - k = Len(argPattern))

C8_Witness ==
    /\ pc = "matchReturned"
    /\ argPattern = <<"p", "a", "c", "k", "a", "g", "e", "-", "l", "o", "c", "k", ".", "j", "s", "o", "n">>
    /\ argFile = <<"s", "u", "b", "/", "p", "a", "c", "k", "a", "g", "e", "-", "l", "o", "c", "k", ".", "j", "s", "o", "n">>
    /\ matched.value

\* C9: a pattern containing * matches a path when the pattern, with * for
\* any run of zero or more characters, matches the full path or a suffix of
\* the path that follows a "/".
C9_GlobAnchoring ==
    pc = "matchReturned" /\ includes(argPattern, "*") /\ GlobAnchored(argPattern, argFile)
        => matched.value

\* C10: for every path and every pattern matchesPattern returns a boolean;
\* it never ends with an exception.
C10_MatcherNeverRaises ==
    MatchDone => pc = "matchReturned" /\ ~matched.threw /\ matched.value \in BOOLEAN

(***************************************************************************)
(* Properties of the exclusion list                                        *)
(***************************************************************************)
\* a built-in fixed pattern matches the path
FixedMatches(path) ==
    \E p \in Range(FIXED_EXCLUDE_PATTERNS) : matchesPattern(path, p) = Returned(TRUE)

\* C11: after any sequence of add-exclude, remove-exclude and reset-excludes
\* runs, every staged path a built-in fixed pattern matches is placed in the
\* skipped set and never in the analyzed set.
C11_FixedPatternsApply ==
    pc \in {"excluded", "diffNull", "diffPaths", "exit1"} =>
        \A i \in 1..Len(stagedFiles) :
            FixedMatches(stagedFiles[i]) =>
                /\ stagedFiles[i] \in Range(excludedFiles)
                /\ stagedFiles[i] \notin Range(filesToInclude)

NoDuplicates(list) == NoRepeat(list)

\* C12: addExclude of a pattern already in the list and removeExclude of a
\* pattern not in it leave the list as it is and write nothing; starting from
\* the default list, the list never holds an entry twice and a pattern is
\* absent from it after the run that removes it.
C12_MutationIdempotence ==
    /\ [](NoDuplicates(excludeFiles))
    /\ [](options.cmd = "removeExclude" => options.arg \notin Range(excludeFiles))
    /\ [][/\ (options'.cmd = "addExclude" /\ options'.arg \in Range(excludeFiles))
              => (excludeFiles' = excludeFiles /\ ~configSet')
          /\ (options'.cmd = "removeExclude" /\ options'.arg \notin Range(excludeFiles))
              => (excludeFiles' = excludeFiles /\ ~configSet')]_vars

C12_Witness ==
    /\ options.cmd = "addExclude" /\ ~configSet
    /\ options.arg = <<"*", ".", "l", "o", "g">>
    /\ excludeFiles = Append(DEFAULT_EXCLUDES, <<"*", ".", "l", "o", "g">>)

(***************************************************************************)
(* Properties of getStagedDiff                                             *)
(***************************************************************************)
STEP_ORDER == <<"isGitRepository", "getGitRoot", "listStaged", "resolveExclusions", "requestDiff">>
Requested == \E i \in 1..Len(steps) : steps[i] = "requestDiff"
ReturnedNull == pc = "returned" /\ result.kind = "null"

\* C13: getStagedDiff verifies the repository, then lists the staged paths,
\* then resolves the exclusions, then requests the diff; it returns null
\* without a diff request when no path is staged or every staged path is
\* excluded, and it returns null when the diff text is blank.
C13_StepOrder ==
    /\ Len(steps) <= Len(STEP_ORDER) /\ steps = SubSeq(STEP_ORDER, 1, Len(steps))
    /\ pc = "returned" /\ stagedFiles = <<>> => ReturnedNull /\ ~Requested /\ diffCommand = <<>>
    /\ pc = "returned" /\ (\A i \in 1..Len(stagedFiles) : Skipped(stagedFiles[i]))
          => ReturnedNull /\ ~Requested /\ diffCommand = <<>>
    /\ pc = "returned" /\ result.kind = "diff" => Requested /\ trim(result.text) # <<>>
    /\ pc = "returned" => result.kind \in {"null", "diff"}

C13_Witness ==
    /\ ReturnedNull /\ steps = SubSeq(STEP_ORDER, 1, 4)
    /\ stagedFiles # <<>>

\* the commands /bin/sh runs for a command line, each a sequence of words;
\* of the shell's syntax the blank, the operator ";", the two kinds of quotes
\* and the backslash are modelled, the characters the paths of DiffPaths and
\* quoteArg can produce
ShellError == [ok |-> FALSE, commands |-> <<>>]
RECURSIVE shellScan(_, _, _, _, _, _, _)
shellScan(s, i, mode, word, inWord, words, commands) ==
    LET endWord == IF inWord THEN Append(words, word) ELSE words
    IN IF i > Len(s)
       THEN IF mode # "plain" THEN ShellError
            ELSE [ok |-> TRUE,
                  commands |-> IF endWord = <<>> THEN commands ELSE Append(commands, endWord)]
       ELSE IF mode = "plain"
       THEN CASE s[i] = " " -> shellScan(s, i + 1, mode, <<>>, FALSE, endWord, commands)
              [] s[i] = ";" ->
                    shellScan(s, i + 1, mode, <<>>, FALSE, <<>>,
                              IF endWord = <<>> THEN commands ELSE Append(commands, endWord))
              [] s[i] = "\"" -> shellScan(s, i + 1, "double", word, TRUE, words, commands)
              [] s[i] = "'" -> shellScan(s, i + 1, "single", word, TRUE, words, commands)
              [] s[i] = "\\" /\ i < Len(s) ->
                    shellScan(s, i + 2, mode, Append(word, s[i + 1]), TRUE, words, commands)
              [] OTHER -> shellScan(s, i + 1, mode, Append(word, s[i]), TRUE, words, commands)
       ELSE IF mode = "double"
       THEN CASE s[i] = "\"" -> shellScan(s, i + 1, "plain", word, TRUE, words, commands)
              [] s[i] = "\\" /\ i < Len(s) /\ s[i + 1] \in {"\"", "\\", "$", "U+0060"} ->
                    shellScan(s, i + 2, mode, Append(word, s[i + 1]), TRUE, words, commands)
              [] OTHER -> shellScan(s, i + 1, mode, Append(word, s[i]), TRUE, words, commands)
       ELSE IF s[i] = "'"
            THEN shellScan(s, i + 1, "plain", word, TRUE, words, commands)
            ELSE shellScan(s, i + 1, mode, Append(word, s[i]), TRUE, words, commands)
shellCommands(line) == shellScan(line, 1, "plain", <<>>, FALSE, <<>>, <<>>)

\* the paths to analyze: the staged paths no pattern matches, in order
ToAnalyze == SelectSeq(stagedFiles, NotSkipped)

\* C14: the diff command getStagedDiff runs is one git diff command whose
\* path arguments are exactly the paths to analyze, each passed as an
\* argument of its own; no skipped path and no pattern is passed.
C14_DiffRestricted ==
    diffCommand # <<>> =>
        shellCommands(diffCommand) =
            [ok |-> TRUE, commands |-> <<(<<<<"g", "i", "t">>>> \o DIFF_ARGS) \o ToAnalyze>>]

\* C15: outside a working tree getStagedDiff fails with the not-a-repository
\* error before any other query; it fails with the diff-too-large error when
\* the output of a git command exceeds the buffer, and with a wrapping Git
\* error for every other failure of a git command; after a failure it returns
\* no diff.
C15_FailureClassification ==
    /\ pc = "threw" /\ caught = NoError =>
          steps = <<"isGitRepository">> /\ result = [kind |-> "error", text |-> NOT_A_REPOSITORY]
    /\ caught # NoError => pc = "threw" /\ result.kind = "error"
    /\ caught.cause = "notRepository" => result.text = NOT_A_REPOSITORY
    /\ caught.cause = "ENOBUFS" => result.text = DIFF_TOO_LARGE
    /\ caught.cause = "other" => result.text = GIT_ERROR_PREFIX \o caught.message

(***************************************************************************)
(* Properties of generateCommit                                            *)
(***************************************************************************)
\* C16: in the generate flow, whatever the staged-list, status-list and diff
\* queries return, no request is sent to the model endpoint while the list
\* of analyzed files handed to the prompt is empty.
C16_NoRequestWithoutFiles ==
    requests > 0 => analyzedFiles # <<>>

Ending ==
    \/ action.choice \in {"accept", "cancel"}
    \/ action.choice = "edit" /\ trim(action.edited) # <<>> /\ action.confirm

\* C19: the loop of generateCommit ends exactly when the user accepts,
\* confirms a non-empty edit or cancels, or when the generation fails; after
\* any other answer it goes on with another iteration.
C19_LoopTermination ==
    /\ pc = "done" <=> Ending
    /\ action # NoAction /\ ~Ending => pc \in {"loop", "menu", "exit1"}
    /\ pc = "exit1" /\ requests > 0 => commitCalls = <<>>
    /\ Len(commitCalls) <= 1
    /\ commitCalls # <<>> => pc = "done" /\ action.choice \in {"accept", "edit"}

C19_Witness ==
    /\ pc = "menu" /\ requests = 2
    /\ action.choice = "edit" /\ trim(action.edited) # <<>> /\ ~action.confirm

(***************************************************************************)
(* Properties of truncateDiffSmart                                         *)
(***************************************************************************)
\* C17: truncateDiffSmart returns a diff of at most 6000 characters as it
\* is, and for a longer one a text of at most 6000 characters plus one
\* truncation marker.
C17_TruncationBound ==
    pc = "truncated" =>
        /\ joinedLength(diffLines) <= MAX_DIFF_LENGTH => truncated = diffLines
        /\ joinedLength(diffLines) > MAX_DIFF_LENGTH =>
              joinedLength(truncated) <= MAX_DIFF_LENGTH + TRUNCATION_MARKER.len + 1

(***************************************************************************)
(* Properties of fetchWithTimeout and of the request                       *)
(***************************************************************************)
FetchEnded == pc \in {"response", "json", "threw"}
ResponseOutcome == response # NoResponse /\ rejection = NoThrown
TimeoutOutcome == response = NoResponse /\ rejection = ABORT_ERROR
FailureOutcome == response = NoResponse /\ rejection \in NetworkErrors

C20_TmpFileCleanup ==
    /\ \A r \in DOMAIN calls :
           calls[r].pc = "returned" =>
               /\ calls[r].value \in {"true", "false"}
               /\ ~exists(calls[r].tmpFile)
    /\ \A r \in DOMAIN calls : \A q \in DOMAIN calls :
           (r # q /\ calls[r].tmpFile # <<>> /\ calls[q].tmpFile # <<>>)
               => calls[r].tmpFile # calls[q].tmpFile

(***************************************************************************)
(* Properties of the port                                                  *)
(***************************************************************************)
\* the texts that are an integer: decimal digits, nothing else
IsIntegerText(text) ==
    /\ text # <<>>
    /\ \A i \in 1..Len(text) : text[i] \in {"0", "1", "2", "3", "4", "5", "6", "7", "8", "9"}

\* C21: the persisted port is always an integer in 1..65535, and a
\* --set-port argument that is not an integer in that range makes the
\* invocation exit with code 1 and leaves the persisted port as it was.
C21_PortValidity ==
    /\ [](ollamaPort \in 1..65535)
    /\ [][\A text \in PortTexts :
            (SetPort(text) /\ ~(IsIntegerText(text) /\ valueOf(text, 10) \in 1..65535))
                => (pc' = "exited" /\ exitCode' = 1 /\ ollamaPort' = ollamaPort)]_vars

(***************************************************************************)
(* Properties of the generate flow                                         *)
(***************************************************************************)
GenEnded == pc \in {"exit0", "exit1", "done"}
NothingToAnalyze ==
    \A i \in 1..Len(stagedFiles) : stagedFiles[i] \in Range(excludedFiles)

\* C22: the generate flow exits with code 0 when nothing is staged or only
\* excluded files are staged, and with code 1 after an error of
\* getStagedDiff (not a repository, diff too large, another git failure),
\* after a failed model request and after a commit that failed.
C22_ExitCodes ==
    GenEnded =>
        /\ (result.kind = "null" /\ NothingToAnalyze) => exitCode = 0
        /\ result.kind = "error" => exitCode = 1
        /\ (requests > 0 /\ pc = "exit1") => exitCode = 1
        /\ commitOk = "false" => exitCode = 1

ConfirmedEdit ==
    action.choice = "edit" /\ trim(action.edited) # <<>> /\ action.confirm

\* C23: executeCommit is called at most once in a run of the generate flow,
\* only on accept or on a confirmed non-empty edit, with the message last
\* displayed: the generated message on accept, the trimmed edited message
\* on edit; no other answer calls it.
C23_CommitHandOff ==
    /\ [](Len(commitCalls) <= 1)
    /\ [](commitCalls # <<>> =>
            /\ action.choice = "accept" \/ ConfirmedEdit
            /\ commitCalls[1] = displayed
            /\ action.choice = "accept" => commitCalls[1] = commitMessage
            /\ action.choice = "edit" => commitCalls[1] = trim(action.edited))
    /\ [][commitCalls' # commitCalls =>
            /\ action'.choice = "accept" \/ ConfirmedEdit'
            /\ commitCalls' = Append(commitCalls, displayed')]_vars
    /\ [][(pc = "menu" /\ action' # action /\ ~(action'.choice = "accept" \/ ConfirmedEdit'))
            => commitCalls' = commitCalls]_vars

C23_Witness ==
    /\ pc = "done" /\ ConfirmedEdit
    /\ commitCalls = <<trim(action.edited)>>
    /\ action.edited # trim(action.edited)

\* C24: in the loop of generateCommit no version-control query is made and
\* the diff, the analyzed files and the statistics keep the values computed
\* before the loop; every request is made of these and of the model and the
\* port that the configuration holds when the request is made, so that a
\* changed model or port is used by the next request.
C24_RegenerationFrame ==
    /\ [][(pc \in {"loop", "menu"}) =>
            (/\ gitQueries' = gitQueries
             /\ result' = result
             /\ analyzedFiles' = analyzedFiles
             /\ diffStats' = diffStats)]_vars
    /\ [][requestLog' # requestLog =>
            requestLog' = Append(requestLog,
                                 [diff |-> result.text, files |-> analyzedFiles,
                                  stats |-> diffStats, model |-> ollamaModel,
                                  port |-> ollamaPort])]_vars
    /\ [](Len(requestLog) = requests)
    /\ [](\A i \in 1..Len(requestLog) :
            /\ requestLog[i].diff = requestLog[1].diff
            /\ requestLog[i].files = requestLog[1].files
            /\ requestLog[i].stats = requestLog[1].stats)
    /\ [](pc \in {"menu", "done"} /\ requestLog # <<>> =>
            /\ requestLog[Len(requestLog)].model = ollamaModel
            /\ requestLog[Len(requestLog)].port = ollamaPort)

C24_Witness ==
    /\ Len(requestLog) = 2
    /\ action.choice = "change-port"
    /\ requestLog[1].port # requestLog[2].port
    /\ requestLog[2].port = 8080
    /\ requestLog[1].diff = requestLog[2].diff

(***************************************************************************)
(* Properties of the structured path of the normalizer                     *)
(***************************************************************************)
\* the candidate span: the reply without white space and fences around it,
\* cut to its first '{' ... last '}' when it has them
CandidateSpan ==
    LET cleaned == trim(stripTrailingFence(stripLeadingFence(
                        stripLeadingJsonFence(trim(rawResponse)))))
    IN IF matchBraces(cleaned) # <<>> THEN matchBraces(cleaned) ELSE cleaned
NonEmptyString(x) == x.t = "str" /\ Len(x.v) > 0
StructuralSuccess ==
    LET r == JSONParse(CandidateSpan)
    IN /\ r.ok /\ r.val.t = "obj"
       /\ NonEmptyString(GetProp(r.val, KEY_TYPE))
       /\ NonEmptyString(GetProp(r.val, KEY_SUBJECT))

\* C25: parseCommitResponse takes the structured path exactly when the
\* candidate span parses as an object whose type and subject are non-empty
\* strings, whatever was defaulted or dropped in the repair; the text
\* fallback is taken exactly in the other cases.  On the structured path the
\* subject of the record is the cleaned subject of the object.
C25_StructuralPrecedence ==
    Parsed =>
        /\ StructuralSuccess <=> parsePath = "structured"
        /\ ~StructuralSuccess <=> parsePath \in {"conventional", "lastResort"}
        /\ StructuralSuccess =>
              commitData.subject =
                  Str(cleanSubject(GetProp(JSONParse(CandidateSpan).val, KEY_SUBJECT).v))

C25_Witness ==
    /\ Parsed /\ StructuralSuccess /\ parsePath = "structured"
    /\ commitData.type = Str(<<"c", "h", "o", "r", "e">>)
    /\ GetProp(JSONParse(CandidateSpan).val, KEY_TYPE) # commitData.type

(***************************************************************************)
(* Properties of the analyzed-file list                                    *)
(***************************************************************************)
AnalyzedPaths == {analyzedFiles[i].file : i \in 1..Len(analyzedFiles)}

\* C26: once computed, the analyzed-file list holds exactly the staged paths
\* that are not excluded, whatever the status of the files: every staged
\* path that is not excluded, no excluded path, and no path that is not
\* staged.
C26_AnalyzedFiles ==
    pc \in {"loop", "menu", "done"} =>
        AnalyzedPaths = Range(stagedFiles) \ Range(excludedFiles)

(***************************************************************************)
(* Properties of the truncation marker                                     *)
(***************************************************************************)
OverBudget == pc = "truncated" /\ joinedLength(diffLines) > MAX_DIFF_LENGTH
MarkerPositions == {i \in 1..Len(truncated) : truncated[i].kind = "marker"}
\* the text assembled from the chunks: the result without the marker
Assembled == SelectSeq(truncated, LAMBDA l : l.kind # "marker")
HeaderCount(lines) == Cardinality({i \in 1..Len(lines) : lines[i].kind = "diff --git"})

\* C27: for a diff over the budget, the result of truncateDiffSmart ends
\* with the truncation marker exactly when the text assembled from the
\* chunks is longer than the budget; the marker occurs at most once and
\* nothing follows it; without the marker every file header is in the
\* result.
C27_TruncationMarker ==
    OverBudget =>
        /\ MarkerPositions \subseteq {Len(truncated)}
        /\ MarkerPositions # {} <=> joinedLength(Assembled) > MAX_DIFF_LENGTH
        /\ MarkerPositions = {} => HeaderCount(truncated) = HeaderCount(diffLines)

(***************************************************************************)
(* Properties of the reports of generateCommit when there is no diff       *)
(***************************************************************************)
\* C28: when getStagedDiff returned null, generateCommit reports "only
\* excluded files are staged" exactly when no staged path is left to
\* analyze and some staged path is excluded, and "no changes in stage"
\* exactly when nothing is staged.
C28_NoOpReports ==
    (pc = "exit0" /\ result.kind = "null") =>
        /\ report = "onlyExcluded" <=> (NothingToAnalyze /\ excludedFiles # <<>>)
        /\ report = "noChanges" <=> stagedFiles = <<>>

(***************************************************************************)
(* Properties of the fences around a reply that is no object               *)
(***************************************************************************)
FenceOpenings == {<<>>, FENCE \o <<"\n">>, FENCE_JSON \o <<"\n">>}
FenceClosings == {<<>>, <<"\n">> \o FENCE}
FencedTexts == {
    <<"f", "e", "a", "t", "(", "a", "u", "t", "h", ")", ":", " ", "a", "d", "d", " ", "l", "o", "g", "i", "n", "\n", "-", " ", "s", "t", "e", "p", " ", "o", "n", "e">>,
    <<"n", "o", " ", "s", "t", "r", "u", "c", "t", "u", "r", "e", " ", "h", "e", "r", "e", " ", "a", "t", " ", "a", "l", "l">>}

\* C29: a reply that is no JSON object gives the same record with and
\* without a three-backtick fence, tagged or not, before and/or after it.
C29_FenceInvariance ==
    Parsed =>
        \A open \in FenceOpenings : \A close \in FenceClosings : \A t \in FencedTexts :
            rawResponse = (open \o t) \o close =>
                commitData = parseCommitResponse(t).data

(***************************************************************************)
(* Properties of an abandoned edit                                         *)
(***************************************************************************)
AbandonedEdit == action.choice = "edit" /\ ~ConfirmedEdit

\* C30: after an edit that was left empty or was not confirmed, the menu
\* comes back for the message already generated: no request is sent and the
\* message is kept, until the user asks for a regeneration or changes the
\* model or the port.
C30_AbandonedEditReturns ==
    [][AbandonedEdit =>
          (/\ requests' = requests
           /\ requestLog' = requestLog
           /\ commitMessage' = commitMessage
           /\ pc' \in {"loop", "menu"})]_vars
====
